---- MODULE Spec2Model ----
(***************************************************************************)
(* A model of the query-time core of the Grafana JSON datasource:         *)
(* MultiApiManager (src/src/multiApi.ts), the registry of API             *)
(* configurations, the response cache in front of the request dispatcher  *)
(* and the request builder.                                                *)
(*                                                                         *)
(* JavaScript strings are modelled as sequences of one-character strings, *)
(* so that concatenation, searching, percent-encoding and the regular     *)
(* expressions of the source are computed and not assumed.                *)
(*                                                                         *)
(* JavaScript runs every handler to completion up to its first await.     *)
(* An action of the model is one such synchronous section.                *)
(***************************************************************************)
EXTENDS Integers, Sequences, FiniteSets, TLC

(***************************************************************************)
(* Bounds of the model.                                                    *)
(***************************************************************************)
\* the clock runs from 0 to MaxTime seconds
MaxTime == 2
\* the number of requests that may be awaiting their response at once
MaxInflight == 1

(***************************************************************************)
(* Strings.                                                                *)
(***************************************************************************)
RECURSIVE Concat(_)
\* the concatenation of a sequence of strings
Concat(ss) == IF ss = <<>> THEN <<>> ELSE Head(ss) \o Concat(Tail(ss))

RECURSIVE Join(_, _)
\* Array.prototype.join
Join(ss, sep) ==
  IF ss = <<>> THEN <<>>
  ELSE IF Len(ss) = 1 THEN Head(ss)
  ELSE Head(ss) \o sep \o Join(Tail(ss), sep)

\* String.prototype.includes / a search that found the needle
Includes(s, needle) ==
  \E i \in 1..(Len(s) - Len(needle) + 1) : SubSeq(s, i, i + Len(needle) - 1) = needle

\* String.prototype.endsWith
EndsWith(s, suffix) ==
  /\ Len(s) >= Len(suffix)
  /\ SubSeq(s, Len(s) - Len(suffix) + 1, Len(s)) = suffix

Digits == {"0", "1", "2", "3", "4", "5", "6", "7", "8", "9"}

\* the characters encodeURIComponent escapes, among those the model uses
Escapes ==
  [c \in {"&", "=", "?", "/", "%", ":", " ", "\\", "\t", "+"} |->
     CASE c = "&"  -> <<"%", "2", "6">>
       [] c = "="  -> <<"%", "3", "D">>
       [] c = "?"  -> <<"%", "3", "F">>
       [] c = "/"  -> <<"%", "2", "F">>
       [] c = "%"  -> <<"%", "2", "5">>
       [] c = ":"  -> <<"%", "3", "A">>
       [] c = " "  -> <<"%", "2", "0">>
       [] c = "\\" -> <<"%", "5", "C">>
       [] c = "\t" -> <<"%", "0", "9">>
       [] c = "+"  -> <<"%", "2", "B">>]

RECURSIVE encodeURIComponent(_)
\* encodeURIComponent: unreserved characters stay, every other one is escaped
encodeURIComponent(s) ==
  IF s = <<>> THEN <<>>
  ELSE (IF Head(s) \in DOMAIN Escapes THEN Escapes[Head(s)] ELSE <<Head(s)>>)
         \o encodeURIComponent(Tail(s))

\* the escapes decodeURIComponent and URLSearchParams decode, among those the
\* model uses; every other sequence after a percent sign is malformed
Unescapes ==
  [h \in {<<"2", "6">>, <<"3", "D">>, <<"3", "d">>, <<"3", "F">>, <<"3", "f">>,
          <<"2", "F">>, <<"2", "f">>, <<"2", "E">>, <<"2", "e">>, <<"2", "5">>,
          <<"3", "A">>, <<"3", "a">>, <<"2", "0">>, <<"5", "C">>, <<"5", "c">>,
          <<"0", "9">>, <<"2", "B">>, <<"2", "b">>} |->
     CASE h = <<"2", "6">> -> "&"
       [] h \in {<<"3", "D">>, <<"3", "d">>} -> "="
       [] h \in {<<"3", "F">>, <<"3", "f">>} -> "?"
       [] h \in {<<"2", "F">>, <<"2", "f">>} -> "/"
       [] h \in {<<"2", "E">>, <<"2", "e">>} -> "."
       [] h = <<"2", "5">> -> "%"
       [] h \in {<<"3", "A">>, <<"3", "a">>} -> ":"
       [] h = <<"2", "0">> -> " "
       [] h \in {<<"5", "C">>, <<"5", "c">>} -> "\\"
       [] h = <<"0", "9">> -> "\t"
       [] h \in {<<"2", "B">>, <<"2", "b">>} -> "+"]

\* a percent sign at position i of s starts a well-formed escape
EscapeAt(s, i) ==
  /\ s[i] = "%"
  /\ i + 2 <= Len(s)
  /\ <<s[i + 1], s[i + 2]>> \in DOMAIN Unescapes

RECURSIVE Malformed(_)
\* some percent sign of s starts no well-formed escape: decodeURIComponent(s)
\* throws URIError
Malformed(s) ==
  IF s = <<>> THEN FALSE
  ELSE IF Head(s) # "%" THEN Malformed(Tail(s))
  ELSE IF EscapeAt(s, 1) THEN Malformed(SubSeq(s, 4, Len(s)))
  ELSE TRUE

RECURSIVE PercentDecode(_)
\* every well-formed escape replaced by its character; a percent sign that
\* starts none is kept (as URLSearchParams does)
PercentDecode(s) ==
  IF s = <<>> THEN <<>>
  ELSE IF EscapeAt(s, 1)
       THEN <<Unescapes[<<s[2], s[3]>>]>> \o PercentDecode(SubSeq(s, 4, Len(s)))
  ELSE <<Head(s)>> \o PercentDecode(Tail(s))

\* decodeURIComponent, for a string that is not Malformed
decodeURIComponent(s) == PercentDecode(s)

\* String.prototype.replace(/\\/g, '/') and the like: every c replaced by d
ReplaceChar(s, c, d) == [i \in 1..Len(s) |-> IF s[i] = c THEN d ELSE s[i]]

RECURSIVE SplitOn(_, _)
\* String.prototype.split on a one-character separator
SplitOn(s, sep) ==
  IF \A i \in 1..Len(s) : s[i] # sep THEN <<s>>
  ELSE LET i == CHOOSE j \in 1..Len(s) :
                  s[j] = sep /\ \A k \in 1..(j - 1) : s[k] # sep
       IN <<SubSeq(s, 1, i - 1)>> \o SplitOn(SubSeq(s, i + 1, Len(s)), sep)

(***************************************************************************)
(* JavaScript objects used as records: an ordered list of (key, value).    *)
(* Keys that are array indices come first, in ascending order, and the     *)
(* other keys follow in the order they were first set. The model knows     *)
(* the one-digit indices.                                                   *)
(***************************************************************************)
IsIndexKey(k) == Len(k) = 1 /\ k[1] \in Digits

DigitVal(c) ==
  CASE c = "0" -> 0 [] c = "1" -> 1 [] c = "2" -> 2 [] c = "3" -> 3
    [] c = "4" -> 4 [] c = "5" -> 5 [] c = "6" -> 6 [] c = "7" -> 7
    [] c = "8" -> 8 [] c = "9" -> 9

\* obj[k] = v
ObjSet(obj, k, v) ==
  IF \E i \in 1..Len(obj) : obj[i][1] = k
  THEN [i \in 1..Len(obj) |-> IF obj[i][1] = k THEN <<k, v>> ELSE obj[i]]
  ELSE IF IsIndexKey(k)
  THEN LET before == {i \in 1..Len(obj) :
                        IsIndexKey(obj[i][1]) /\ DigitVal(obj[i][1][1]) < DigitVal(k[1])}
           n == Cardinality(before)
       IN SubSeq(obj, 1, n) \o <<(<<k, v>>)>> \o SubSeq(obj, n + 1, Len(obj))
  ELSE Append(obj, <<k, v>>)

RECURSIVE ObjSetAll(_, _)
\* pairs.forEach(([k, v]) => obj[k] = v)
ObjSetAll(obj, pairs) ==
  IF pairs = <<>> THEN obj
  ELSE ObjSetAll(ObjSet(obj, Head(pairs)[1], Head(pairs)[2]), Tail(pairs))

RECURSIVE WithKey(_)
\* pairs.filter(([key, _]) => key): the pairs whose key is not the empty string
WithKey(pairs) ==
  IF pairs = <<>> THEN <<>>
  ELSE (IF Head(pairs)[1] # <<>> THEN <<Head(pairs)>> ELSE <<>>) \o WithKey(Tail(pairs))

(***************************************************************************)
(* The request builder: MultiApiManager.get and MultiApiManager._request.  *)
(* An API configuration is a record [id, name, url, queryParams, headers]; *)
(* an absent queryParams is the empty string and absent headers are the    *)
(* empty list, which the source treats alike.                              *)
(***************************************************************************)
\* one "name=value" segment of a query string, as URLSearchParams reads it
ParsePair(seg) ==
  LET dec(t) == PercentDecode(ReplaceChar(t, "+", " "))
  IN IF \E i \in 1..Len(seg) : seg[i] = "="
     THEN LET i == CHOOSE j \in 1..Len(seg) :
                     seg[j] = "=" /\ \A k \in 1..(j - 1) : seg[k] # "="
          IN <<dec(SubSeq(seg, 1, i - 1)), dec(SubSeq(seg, i + 1, Len(seg)))>>
     ELSE <<dec(seg), <<>>>>

RECURSIVE ParseSegments(_)
ParseSegments(segs) ==
  IF segs = <<>> THEN <<>>
  ELSE (IF Head(segs) = <<>> THEN <<>> ELSE <<ParsePair(Head(segs))>>)
         \o ParseSegments(Tail(segs))

\* new URLSearchParams('?' + q), as the list of its (key, value) entries
URLSearchParams(q) == ParseSegments(SplitOn(q, "&"))

RECURSIVE ToDigits(_)
\* the decimal digits of a natural number
ToDigits(n) ==
  LET d == <<"0", "1", "2", "3", "4", "5", "6", "7", "8", "9">>[(n % 10) + 1]
  IN IF n < 10 THEN <<d>> ELSE Append(ToDigits(n \div 10), d)

RECURSIVE Suffixed(_, _)
\* the call-supplied parameters with a non-empty key, the i-th of them under
\* key + '__' + i
Suffixed(params, i) ==
  IF params = <<>> THEN <<>>
  ELSE IF Head(params)[1] = <<>> THEN Suffixed(Tail(params), i)
  ELSE <<(<<Head(params)[1] \o <<"_", "_">> \o ToDigits(i), Head(params)[2]>>)>>
         \o Suffixed(Tail(params), i + 1)

\* paramsData of get: the API's query parameters, then the suffixed call
\* parameters, set one after the other on one object
ParamsData(api, params) ==
  ObjSetAll(ObjSetAll(<<>>, URLSearchParams(api.queryParams)), Suffixed(params, 0))

\* k.replace(/__\d+$/, '')
StripSuffix(k) ==
  LET n == Len(k)
      digitsFrom(i) == i <= n /\ \A j \in i..n : k[j] \in Digits
      starts == {i \in 1..(n - 2) : k[i] = "_" /\ k[i + 1] = "_" /\ digitsFrom(i + 2)}
  IN IF starts = {} THEN k
     ELSE SubSeq(k, 1, (CHOOSE i \in starts : \A j \in starts : i <= j) - 1)

RECURSIVE DedupSlashes(_)
\* s.replace(/([^:]\/)\/+/g, '$1')
DedupSlashes(s) ==
  IF Len(s) < 3 THEN s
  ELSE IF s[1] # ":" /\ s[2] = "/" /\ s[3] = "/"
       THEN LET run == CHOOSE m \in 3..Len(s) :
                          /\ \A j \in 3..m : s[j] = "/"
                          /\ (m = Len(s) \/ s[m + 1] # "/")
            IN <<s[1], "/">> \o DedupSlashes(SubSeq(s, run + 1, Len(s)))
  ELSE <<Head(s)>> \o DedupSlashes(Tail(s))

RECURSIVE EncodedPairs(_, _)
\* pairs.map(([k, v]) => encodeURIComponent(k') + '=' + encodeURIComponent(v)),
\* k' being k, or k without its suffix when strip is set
EncodedPairs(pairs, strip) ==
  IF pairs = <<>> THEN <<>>
  ELSE LET k == IF strip THEN StripSuffix(Head(pairs)[1]) ELSE Head(pairs)[1]
       IN <<encodeURIComponent(k) \o <<"=">> \o encodeURIComponent(Head(pairs)[2])>>
            \o EncodedPairs(Tail(pairs), strip)

\* url with the query appended after '?', or after '&' when url holds a '?'
AppendQuery(url, pairs, strip) ==
  IF Len(pairs) > 0
  THEN url \o (IF Includes(url, <<"?">>) THEN <<"&">> ELSE <<"?">>)
           \o Join(EncodedPairs(pairs, strip), <<"&">>)
  ELSE url

\* fullUrl of _request
FullUrl(api, path, paramsData) ==
  AppendQuery(DedupSlashes(api.url \o path), paramsData, TRUE)

\* the string isSafeURL inspects, before it is percent-decoded
Slashed(origUrl) == ReplaceChar(origUrl, "\\", "/")

\* an isSafeURL that looks at the URL as it is written, escapes undecoded
isSafeURLRaw(origUrl) ==
  LET url == Slashed(origUrl)
  IN /\ ~EndsWith(url, <<"/", ".", ".">>)
     /\ ~Includes(url, <<"/", ".", ".", "/">>)
     /\ ~Includes(url, <<"/", ".", ".", "?">>)
     /\ ~Includes(url, <<"\t">>)

\* isSafeURL, for a URL whose decoding does not throw
isSafeURL(origUrl) ==
  LET url == decodeURIComponent(Slashed(origUrl))
  IN /\ ~EndsWith(url, <<"/", ".", ".">>)
     /\ ~Includes(url, <<"/", ".", ".", "/">>)
     /\ ~Includes(url, <<"/", ".", ".", "?">>)
     /\ ~Includes(url, <<"\t">>)

ContentType == <<"C", "o", "n", "t", "e", "n", "t", "-", "T", "y", "p", "e">>
ApplicationJson ==
  <<"a", "p", "p", "l", "i", "c", "a", "t", "i", "o", "n", "/", "j", "s", "o", "n">>

\* recordHeaders as a list that keeps every header it is given
RecordHeadersList(headers) ==
  <<(<<ContentType, ApplicationJson>>)>> \o WithKey(headers)

\* recordHeaders of _request
RecordHeaders(headers) ==
  ObjSetAll(<<(<<ContentType, ApplicationJson>>)>>, WithKey(headers))

\* a _request that sends the data it is given with every method
RequestWithData(api, method, path, paramsData, headers, data) ==
  LET fullUrl == FullUrl(api, path, paramsData)
  IN IF Malformed(Slashed(fullUrl)) THEN [error |-> "URIError"]
     ELSE IF ~isSafeURL(fullUrl) THEN [error |-> "unsafe"]
     ELSE [error |-> "none",
           url |-> fullUrl,
           method |-> method,
           headers |-> RecordHeaders(headers),
           hasData |-> data # <<>>,
           data |-> data]

\* _request: what it throws, or the request it hands to the backend service.
\* The request carries data when the method is not GET and data is not empty.
Request(api, method, path, paramsData, headers, data) ==
  LET fullUrl == FullUrl(api, path, paramsData)
  IN IF Malformed(Slashed(fullUrl)) THEN [error |-> "URIError"]
     ELSE IF ~isSafeURL(fullUrl) THEN [error |-> "unsafe"]
     ELSE [error |-> "none",
           url |-> fullUrl,
           method |-> method,
           headers |-> RecordHeaders(headers),
           hasData |-> (method # "GET" /\ data # <<>>),
           data |-> IF method # "GET" /\ data # <<>> THEN data ELSE <<>>]

(***************************************************************************)
(* The cache (the memory-cache package, as MultiApiManager uses it): a map *)
(* from key to [value, expire]; expire is in milliseconds.                 *)
(***************************************************************************)

\* the truthiness of a parsed JSON value
Truthy(v) == v \notin {"null", "0", "false", "\"\""}

\* Date.now() when the clock shows t seconds
Millis(t) == t * 1000

\* cache.del(key) taken for cache.clear(): every entry goes
CacheDelAll(c, key) == [k \in {} |-> c[k]]

\* cache.del(key)
CacheDel(c, key) == [k \in DOMAIN c \ {key} |-> c[k]]

\* cache.put(key, value, time) at clock t
CachePut(c, key, value, time, t) ==
  [k \in DOMAIN c \cup {key} |->
     IF k = key THEN [value |-> value, expire |-> time + Millis(t)] ELSE c[k]]

\* the entry under key is there and is not expired at clock t
Live(c, key, t) == key \in DOMAIN c /\ c[key].expire >= Millis(t)

\* what cache.get(key) returns at clock t: the value of a live entry, else null
CacheGet(c, key, t) == IF Live(c, key, t) THEN c[key].value ELSE "null"

\* a cache.get that gives a live entry another second
CacheAfterGetTouch(c, key, t) ==
  IF key \in DOMAIN c /\ c[key].expire >= t * 1000
  THEN [c EXCEPT ![key].expire = @ + 1000]
  ELSE [k \in DOMAIN c \ {key} |-> c[k]]

\* the cache after cache.get(key) at clock t: an expired entry is dropped
CacheAfterGet(c, key, t) ==
  IF key \in DOMAIN c /\ ~Live(c, key, t) THEN CacheDel(c, key) ELSE c

(***************************************************************************)
(* The registry: a Map from API id to configuration, as the list of its    *)
(* entries in insertion order.                                              *)
(***************************************************************************)
\* a set that keeps the configuration an id already has
MapSetKeep(m, api) ==
  IF \E i \in 1..Len(m) : m[i].id = api.id THEN m ELSE Append(m, api)

\* this.apis.set(api.id, api)
MapSet(m, api) ==
  IF \E i \in 1..Len(m) : m[i].id = api.id
  THEN [i \in 1..Len(m) |-> IF m[i].id = api.id THEN api ELSE m[i]]
  ELSE Append(m, api)

RECURSIVE MapSetAll(_, _)
\* list.forEach((api) => this.apis.set(api.id, api))
MapSetAll(m, list) ==
  IF list = <<>> THEN m ELSE MapSetAll(MapSet(m, Head(list)), Tail(list))

\* this.apis.has(apiId)
MapHas(m, apiId) == \E i \in 1..Len(m) : m[i].id = apiId

\* this.apis.get(apiId), for an id the map has
MapGet(m, apiId) == m[CHOOSE i \in 1..Len(m) : m[i].id = apiId]

\* a cache key that tells the methods apart
CacheKeyWithMethod(api, method, path, params, headers, body) ==
  <<method>> \o AppendQuery(api.url \o path, params, FALSE)

\* the cache key of cachedGet, computed from all that the call is given
CacheKey(api, method, path, params, headers, body) ==
  AppendQuery(api.url \o path, params, FALSE)

(***************************************************************************)
(* The state of a MultiApiManager and of its environment.                  *)
(***************************************************************************)
VARIABLES
  apis,               \* this.apis
  cache,              \* this.cache
  lastCacheDuration,  \* this.lastCacheDuration: {} when undefined, else {d}
  update,             \* the position of a running updateApis
  regList,            \* the list given to the constructor or to the last updateApis
  inflight,           \* the requests handed to the backend service and not answered yet
  now,                \* the clock, in seconds
  keyDuration,        \* history: for every cache key computed so far, the
                      \* duration of the last call that computed it
  batch,              \* the running testDatasource or query: the results it gathers
  limit,              \* the number of requests followed at once: no state of the
                      \* program
  op                  \* what the last step did and what it returned to its caller

vars ==
  <<apis, cache, lastCacheDuration, update, regList, inflight, now, keyDuration, batch,
    limit, op>>

(***************************************************************************)
(* The inputs of the model.                                                *)
(***************************************************************************)
UrlA == <<"h", "t", "t", "p", ":", "/", "/", "h", "/", "a">>
UrlB == <<"h", "t", "t", "p", ":", "/", "/", "h", "/", "b">>
XKey == <<"X", "-", "K", "e", "y">>

ApiA == [id |-> "a", name |-> "A", url |-> UrlA, queryParams |-> <<>>, headers |-> <<>>]
ApiB ==
  [id |-> "b", name |-> "B", url |-> UrlB,
   queryParams |-> <<"t", "=", "1">>,
   headers |-> <<(<<XKey, (<<"k", "1">>)>>)>>]
\* a second configuration with the id of ApiA
ApiA2 == [id |-> "a", name |-> "A2", url |-> UrlB, queryParams |-> <<>>, headers |-> <<>>]

ApiIds == {"a", "b"}

\* the lists given to the constructor and to updateApis
RegLists == {<<>>, <<ApiB>>, <<ApiA, ApiB>>, <<ApiA, ApiB, ApiA2>>}

\* every configuration a list holds
Configs == UNION {{list[i] : i \in 1..Len(list)} : list \in RegLists}

\* the cache durations, in seconds; 0 stands for every falsy duration
\* (0, undefined, null, NaN)
Durations == {0, 1, 2}

PathX == <<"/", "x">>
ParamQ == <<(<<"q">>), (<<"1">>)>>
Body1 == <<"{", "}">>

\* the arguments of get and of cachedGet
Args(apiId, method, path, params, headers, body) ==
  [apiId |-> apiId, method |-> method, path |-> path, params |-> params,
   headers |-> headers, body |-> body]

GetAX == Args("a", "GET", PathX, <<>>, <<>>, <<>>)
GetBXQ == Args("b", "GET", PathX, <<ParamQ>>, <<>>, <<>>)

\* the calls of the cache scenarios: two keys, and a path that is not safe
CacheCalls == {GetAX, GetBXQ, Args("a", "GET", <<"/", ".", ".", "/", "x">>, <<>>, <<>>, <<>>)}

\* the calls of the registry scenarios
RegCalls == {GetAX, GetBXQ}

HeaderK2 == <<XKey, (<<"k", "2">>)>>

\* the calls whose cache keys are compared: two paths, five parameter lists,
\* and two settings of what is left (method, headers, body)
KeyCalls ==
  {Args("a", rest[1], path, params, rest[2], rest[3]) :
     path \in {PathX, <<"/", "x", "?", "y">>},
     params \in {<<>>, <<ParamQ>>, <<ParamQ, <<(<<"r">>), (<<"1", "&">>)>>>>,
                 <<<<(<<"r">>), (<<"1", "&">>)>>, ParamQ>>,
                 <<ParamQ, ParamQ>>},
     rest \in {<<"GET", <<>>, <<>>>>, <<"POST", <<HeaderK2>>, Body1>>}}

ApiH == [id |-> "h", name |-> "H",
  url |-> <<"h", "t", "t", "p", ":", "/", "/", "h", "o", "s", "t", "/", "a">>,
  queryParams |-> <<>>, headers |-> <<>>]

SafePaths ==
  {<<"/", "b">>,
   <<"/", ".", ".", "/", "b">>,
   <<"%", "2", "f", ".", ".", "%", "2", "f", "b">>,
   <<"/", ".", ".">>,
   <<"/", ".", ".", "?", "x">>,
   <<"/", ".", ".", "%", "3", "f", "x">>,
   <<"\\", ".", ".", "\\", "b">>,
   <<"%", "5", "c", ".", ".", "%", "5", "c", "b">>,
   <<"/", "\t", "b">>,
   <<"/", "%", "0", "9", "b">>,
   <<"/", "%">>,
   <<"/", "%", "2", "e", "%", "2", "e", "/", "b">>,
   <<"/", ".", ".", "b">>,
   <<"/", "/", ".", ".", "/", "/", "b">>}

SafeCalls ==
  {Args("h", "GET", path, params, <<>>, <<>>) :
     path \in SafePaths, params \in {<<>>, <<ParamQ>>, 
                  <<<<(<<"p">>), (<<"/", ".", ".", "/">>)>>>>,
                  <<<<(<<"p">>), (<<"/", ".", ".">>)>>>>}}

ApiDup == [id |-> "c", name |-> "C",
  url |-> <<"h", "t", "t", "p", ":", "/", "/", "h", "/", "c">>,
  queryParams |-> <<"t", "=", "1", "&", "t", "=", "2">>, headers |-> <<>>]
ApiSfx == [id |-> "d", name |-> "D",
  url |-> <<"h", "t", "t", "p", ":", "/", "/", "h", "/", "d">>,
  queryParams |-> <<"p", "_", "_", "1", "=", "5">>, headers |-> <<>>]

QueryParamLists ==
  {<<>>, <<ParamQ>>, <<ParamQ, ParamQ>>, <<ParamQ, <<(<<"r">>), (<<"1", "&">>)>>, ParamQ>>,
   <<<<(<<>>), (<<"1">>)>>, ParamQ>>,
   <<<<(<<"k", "_", "_", "3">>), (<<"v">>)>>>>, <<<<(<<"t">>), (<<"9">>)>>>>}

QueryCalls ==
  {Args(id, "GET", path, params, <<>>, <<>>) :
     id \in {"b", "c", "d"}, path \in {PathX, <<"/", "x", "?", "y">>}, params \in QueryParamLists}

HeaderLists ==
  {<<>>, <<HeaderK2>>, <<HeaderK2, <<XKey, (<<"k", "3">>)>>>>,
   <<<<(<<"X", "-", "Y">>), (<<"y">>)>>>>, <<HeaderK2, <<(<<"X", "-", "Y">>), (<<"y">>)>>>>,
   <<<<(<<>>), (<<"v">>)>>>>, <<<<ContentType, (<<"t", "e", "x", "t">>)>>>>}

HeaderCalls ==
  {Args(id, method, PathX, <<>>, headers, <<>>) :
     id \in {"a", "b"}, method \in {"GET", "POST"}, headers \in HeaderLists}

(***************************************************************************)
(* JsonDataSource.requestJson up to its call of cachedGet. A query is a    *)
(* record [method, apiId, requestType, body, customBody, urlPath, params,  *)
(* headers, cacheDurationSeconds]; an absent apiId or requestType is "",   *)
(* an absent body is the empty string, and customBody is {} when absent,   *)
(* else the set of the one JSON text of the object.                        *)
(***************************************************************************)
\* line 473
supportedMethods == <<"GET", "POST", "PUT", "DELETE", "PATCH">>

\* lines 164-192: the request types that are always there
HardcodedTypes ==
  <<[id |-> "AggregateData", apiId |-> "DataService"],
    [id |-> "GetFilterTreeItems", apiId |-> "DomainService"],
    [id |-> "GetExperiments", apiId |-> "DomainService"]>>

\* the request types of the data source settings: one with an API, one
\* without, and one with the id of a hardcoded type
CustomTypes ==
  <<[id |-> "rt1", apiId |-> "b"],
    [id |-> "rt0", apiId |-> ""],
    [id |-> "AggregateData", apiId |-> "b"]>>

\* lines 194-201: getRequestTypesWithHardcoded
RequestTypesWithHardcoded(customTypes) ==
  HardcodedTypes \o
    SelectSeq(customTypes,
              LAMBDA type : ~\E i \in 1..Len(HardcodedTypes) : HardcodedTypes[i].id = type.id)

\* line 160: instanceSettings.jsonData.requestTypes
requestTypes == RequestTypesWithHardcoded(CustomTypes)

\* a resolution that looks at the query's own API id only
ResolveApiIdOfQuery(query) == query.apiId

\* lines 478-487: the API id that requestJson uses, "" when there is none
ResolveApiId(query) ==
  IF query.apiId = "" /\ query.requestType # ""
  THEN LET found == {i \in 1..Len(requestTypes) : requestTypes[i].id = query.requestType}
       IN IF found = {} THEN query.apiId
          ELSE LET requestType == requestTypes[CHOOSE i \in found : \A j \in found : i <= j]
               IN IF requestType.apiId # "" THEN requestType.apiId ELSE query.apiId
  ELSE query.apiId

\* lines 489-498: the body that requestJson passes on
RequestBody(query) ==
  IF query.method = "GET" THEN <<>>
  ELSE IF query.requestType # "" /\ query.customBody # {}
       THEN CHOOSE text \in query.customBody : TRUE
  ELSE query.body

\* the dashboard variable of the model and its value
VarName == <<"$", "v">>
VarValue == <<"7">>

RECURSIVE Interpolate(_)
\* interpolate(text): every $v replaced by the value of the variable
Interpolate(text) ==
  IF text = <<>> THEN <<>>
  ELSE IF Len(text) >= 2 /\ SubSeq(text, 1, 2) = VarName
       THEN VarValue \o Interpolate(SubSeq(text, 3, Len(text)))
  ELSE <<Head(text)>> \o Interpolate(Tail(text))

\* line 469: interpolateKeyValue on every pair
InterpolatePairs(pairs) ==
  [i \in 1..Len(pairs) |-> <<Interpolate(pairs[i][1]), Interpolate(pairs[i][2])>>]

\* lines 502-510 and 514-521: the arguments that requestJson passes to cachedGet
CallOf(query) ==
  Args(ResolveApiId(query), query.method, Interpolate(query.urlPath),
       InterpolatePairs(query.params), InterpolatePairs(query.headers),
       Interpolate(RequestBody(query)))

Query(method, apiId, requestType, body, customBody, urlPath, d) ==
  [method |-> method, apiId |-> apiId, requestType |-> requestType, body |-> body,
   customBody |-> customBody, urlPath |-> urlPath, params |-> <<>>, headers |-> <<>>,
   cacheDurationSeconds |-> d]

BodyQueries ==
  {Query(method, "a", requestType, body, customBody, PathX, 0) :
     method \in {"GET", "POST", "PUT", "DELETE", "PATCH"},
     requestType \in {"", "rt0"},
     body \in {<<>>, VarName},
     customBody \in {{}, {<<"{", "\"", "s", "\"", ":", "1", "}">>}}}
    \cup {Query(method, "", "", Body1, {}, PathX, 0) :
            method \in {"GET", "POST", "PUT", "DELETE", "PATCH"}}

\* the direct calls of get of the body scenarios
BodyCalls ==
  {Args("a", method, PathX, <<>>, <<>>, Body1) :
     method \in {"GET", "POST", "PUT", "DELETE", "PATCH"}}
    \cup {Args("a", "GET", PathX, <<>>, <<>>, <<>>)}

\* the inputs of the method scenarios: supported methods and methods that are
\* not (one of them a supported method in lower case, one the empty string),
\* on a registered API, on an id that is not registered and without an API
MethodQueries ==
  {Query(method, apiId, "", <<>>, {}, PathX, d) :
     method \in {"GET", "POST", "get", "HEAD", ""},
     apiId \in {"a", "z", ""},
     d \in {1, 2}}

\* the inputs of the resolution scenarios: queries with and without an API
\* id (one id is not registered), naming no request type, a type with an
\* API, a type without, a hardcoded type that the settings declare again,
\* and a type that does not exist
ResolveQueries ==
  {Query("GET", apiId, requestType, <<>>, {}, <<"/", "$", "v">>, d) :
     apiId \in {"a", "z", ""},
     requestType \in {"", "rt1", "rt0", "AggregateData", "nope"},
     d \in {0, 1}}

JsonQueries == BodyQueries \cup MethodQueries \cup ResolveQueries

\* CallOf, computed once for every query
Calls == [query \in JsonQueries |-> CallOf(query)]

\* the queries that make requestJson pass on the arguments c
QueriesOf == [c \in {Calls[query] : query \in JsonQueries} |->
                {query \in JsonQueries : Calls[query] = c}]

AllCalls == CacheCalls \cup RegCalls \cup KeyCalls \cup SafeCalls \cup QueryCalls
    \cup HeaderCalls \cup BodyCalls
    \cup {Calls[query] : query \in JsonQueries}

\* an API whose URL the request builder rejects
ApiUp ==
  [id |-> "u", name |-> "U", url |-> <<"h", "t", "t", "p", ":", "/", "/", "h", "/", ".", ".">>,
   queryParams |-> <<>>, headers |-> <<>>]

\* API A with other default query parameters and headers
ApiAH ==
  [id |-> "a", name |-> "A", url |-> UrlA,
   queryParams |-> <<"t", "=", "2">>,
   headers |-> <<(<<XKey, (<<"k", "2">>)>>)>>]

\* every configuration of the scenarios
AllConfigs == Configs \cup {ApiH, ApiDup, ApiSfx, ApiUp, ApiAH}

\* the bodies of the successful responses
Bodies == {"0", "{}"}

\* the answers of the backend service: a 2xx response with its parsed body, or
\* a failure (a transport error or a status that is not 2xx)
Responses == [ok : {TRUE}, data : Bodies] \cup {[ok |-> FALSE, data |-> "null"]}

(***************************************************************************)
(* Construction.                                                           *)
(***************************************************************************)
Idle == [active |-> FALSE, rest |-> <<>>, before |-> <<>>]

\* no testDatasource and no query is running
NoCall == [kind |-> "none", todo |-> <<>>, slots |-> <<>>, result |-> {}]

\* new MultiApiManager(list), the model following at most n requests at once
Constructed(list, n) ==
  /\ apis = MapSetAll(<<>>, list)
  /\ regList = list
  /\ cache = <<>>
  /\ lastCacheDuration = {}
  /\ update = Idle
  /\ inflight = <<>>
  /\ now = 0
  /\ keyDuration = <<>>
  /\ batch = NoCall
  /\ limit = n
  /\ op = [name |-> "new"]

\* new MultiApiManager(list)
Construct(list) == Constructed(list, MaxInflight)

(***************************************************************************)
(* updateApis. It is a synchronous method: from its first statement to its *)
(* last no other handler runs, which update.active records. Every other    *)
(* action starts only when no synchronous section is running.              *)
(***************************************************************************)
\* an updateApis that yields to other handlers between its clear and its sets
UpdateApisClearAsync(list) ==
  /\ ~update.active
  /\ update.rest = <<>>
  /\ apis' = <<>>
  /\ regList' = list
  /\ update' = IF list = <<>> THEN Idle
               ELSE [active |-> FALSE, rest |-> list, before |-> regList]
  /\ op' = [name |-> "updateApis"]
  /\ UNCHANGED <<cache, lastCacheDuration, inflight, now, keyDuration, batch, limit>>

\* line 25: this.apis.clear(), entering updateApis(list)
UpdateApisClear(list) ==
  /\ ~update.active
  /\ update.rest = <<>>
  /\ apis' = <<>>
  /\ regList' = list
  /\ update' = IF list = <<>> THEN Idle
               ELSE [active |-> TRUE, rest |-> list, before |-> regList]
  /\ op' = [name |-> "updateApis"]
  /\ UNCHANGED <<cache, lastCacheDuration, inflight, now, keyDuration, batch, limit>>

\* lines 26-28: one turn of the forEach; updateApis returns after the last
UpdateApisSet ==
  /\ update.rest # <<>>
  /\ apis' = MapSet(apis, Head(update.rest))
  /\ update' = IF Tail(update.rest) = <<>> THEN Idle
               ELSE [update EXCEPT !.rest = Tail(update.rest)]
  /\ op' = [name |-> "updateApis"]
  /\ UNCHANGED <<cache, lastCacheDuration, regList, inflight, now,
                 keyDuration, batch, limit>>

(***************************************************************************)
(* The registry reads.                                                     *)
(***************************************************************************)
\* a getApi that falls back on the first configuration
getApiOrFirst(m, apiId) ==
  IF MapHas(m, apiId) THEN [found |-> TRUE, api |-> MapGet(m, apiId)]
  ELSE IF m # <<>> THEN [found |-> TRUE, api |-> m[1]]
  ELSE [found |-> FALSE]

\* getApi(apiId): the configuration, or "undefined"
getApi(m, apiId) ==
  IF MapHas(m, apiId) THEN [found |-> TRUE, api |-> MapGet(m, apiId)]
  ELSE [found |-> FALSE]

\* getAllApis()
getAllApis(m) == m

GetApi(apiId) ==
  /\ ~update.active
  /\ op' = [name |-> "getApi", apiId |-> apiId, result |-> getApi(apis, apiId)]
  /\ UNCHANGED <<apis, cache, lastCacheDuration, update, regList, inflight, now,
                 keyDuration, batch, limit>>

GetAllApis ==
  /\ ~update.active
  /\ op' = [name |-> "getAllApis", result |-> getAllApis(apis)]
  /\ UNCHANGED <<apis, cache, lastCacheDuration, update, regList, inflight, now,
                 keyDuration, batch, limit>>

(***************************************************************************)
(* get, test and cachedGet up to their await: the synchronous section that *)
(* ends with the request handed to the backend service, or with a throw.   *)
(***************************************************************************)
\* _request for get(c) on api (lines 61-85), computed once for every pair
GetRequests ==
  [api \in AllConfigs |->
     [c \in AllCalls |->
        Request(api, c.method, c.path, ParamsData(api, c.params),
                api.headers \o c.headers, c.body)]]

\* _request for test on api (lines 99-108), computed once for every api
TestRequests ==
  [api \in AllConfigs |->
     Request(api, "GET", <<>>, ObjSetAll(<<>>, URLSearchParams(api.queryParams)),
             api.headers, <<>>)]

\* the cache key of cachedGet(c) on api (lines 132-139), computed once for every pair
CacheKeys ==
  [api \in AllConfigs |->
     [c \in AllCalls |-> CacheKey(api, c.method, c.path, c.params, c.headers, c.body)]]

\* get (lines 56-85): what it throws, or the request it sends
GetOutcome(m, c) ==
  IF ~getApi(m, c.apiId).found THEN [error |-> "not_found"]
  ELSE GetRequests[getApi(m, c.apiId).api][c]

\* test (lines 94-108)
TestOutcome(m, apiId) ==
  IF ~getApi(m, apiId).found THEN [error |-> "not_found"]
  ELSE TestRequests[getApi(m, apiId).api]

\* a call whose answer is stored under the empty key
PendingNoKey(kind, c, store, key, d, r) ==
  [kind |-> kind, args |-> c, store |-> store, key |-> <<>>, d |-> d, req |-> r]

\* a call that awaits the answer to request r
Pending(kind, c, store, key, d, r) ==
  [kind |-> kind, args |-> c, store |-> store, key |-> key, d |-> d, req |-> r]

\* a backend that hands over no second request for a key that is awaited
SentOnce(r, call) ==
  IF r.error = "none"
       /\ ~\E i \in 1..Len(inflight) : call.store /\ inflight[i].key = call.key
  THEN Append(inflight, call)
  ELSE inflight

\* the requests in flight after a synchronous section that ended with r
Sent(r, call) == IF r.error = "none" THEN Append(inflight, call) ELSE inflight

\* the model follows at most limit requests at once
Room(r) == r.error = "none" => Len(inflight) < limit

Outcome(r) == IF r.error = "none" THEN "sent" ELSE r.error

\* what a call of get, test or cachedGet did before it returned or awaited:
\* outcome is "hit", "sent" or the error thrown; value is the value returned
\* by a hit; dispatches counts the calls of get; evicted tells that the
\* duration rule deleted an entry
Did(name, c, d, key, outcome, value, dispatches, evicted) ==
  [name |-> name, args |-> c, d |-> d, key |-> key, outcome |-> outcome,
   value |-> value, dispatches |-> dispatches, evicted |-> evicted]

Get(c) ==
  /\ ~update.active
  /\ LET r == GetOutcome(apis, c)
     IN /\ Room(r)
        /\ inflight' = Sent(r, Pending("get", c, FALSE, <<>>, 0, r))
        /\ op' = Did("get", c, 0, <<>>, Outcome(r), "null", 1, FALSE)
  /\ UNCHANGED <<apis, cache, lastCacheDuration, update, regList, now,
                 keyDuration, batch, limit>>

Test(apiId) ==
  /\ ~update.active
  /\ LET r == TestOutcome(apis, apiId)
         c == Args(apiId, "GET", <<>>, <<>>, <<>>, <<>>)
     IN /\ Room(r)
        /\ inflight' = Sent(r, Pending("test", c, FALSE, <<>>, 0, r))
        /\ op' = Did("test", c, 0, <<>>, Outcome(r), "null", 0, FALSE)
  /\ UNCHANGED <<apis, cache, lastCacheDuration, update, regList, now,
                 keyDuration, batch, limit>>

\* a cachedGet that never bypasses the cache
BypassNever(d) == FALSE

\* line 123: the duration is falsy, the cache is bypassed
Bypass(d) == d = 0

\* a duration rule that never applies
EvictsNever(last, d) == FALSE

\* line 141: the duration rule applies
Evicts(last, d) == last # {d}

\* line 147: the looked-up item is served
Served(item) == Truthy(item)

CachedGet(c, d) ==
  /\ ~update.active
  /\ IF Bypass(d)
     THEN \* lines 123-125
          LET r == GetOutcome(apis, c)
          IN /\ Room(r)
             /\ inflight' = Sent(r, Pending("cachedGet", c, FALSE, <<>>, d, r))
             /\ op' = Did("cachedGet", c, d, <<>>, Outcome(r), "null", 1, FALSE)
             /\ UNCHANGED <<cache, lastCacheDuration>>
     ELSE IF ~getApi(apis, c.apiId).found
     THEN \* lines 127-130
          /\ op' = Did("cachedGet", c, d, <<>>, "not_found", "null", 0, FALSE)
          /\ UNCHANGED <<cache, lastCacheDuration, inflight>>
     ELSE \* lines 132-151
          LET api == getApi(apis, c.apiId).api
              key == CacheKeys[api][c]
              rule == Evicts(lastCacheDuration, d)
              c1 == IF rule THEN CacheDel(cache, key) ELSE cache
              item == CacheGet(c1, key, now)
              c2 == CacheAfterGet(c1, key, now)
              evicted == rule /\ key \in DOMAIN cache
              r == GetOutcome(apis, c)
          IN /\ Served(item) \/ Room(r)
             /\ lastCacheDuration' = {d}
             /\ cache' = c2
             /\ IF Served(item)
                THEN /\ inflight' = inflight
                     /\ op' = Did("cachedGet", c, d, key, "hit", item, 0, evicted)
                ELSE /\ inflight' = Sent(r, Pending("cachedGet", c, TRUE, key, d, r))
                     /\ op' = Did("cachedGet", c, d, key, Outcome(r), "null", 1,
                                  evicted)
  /\ UNCHANGED <<apis, update, regList, now, limit>>

(***************************************************************************)
(* The answer of the backend service to the i-th request in flight, and    *)
(* the rest of the call that awaited it.                                   *)
(***************************************************************************)
Remove(seq, i) == SubSeq(seq, 1, i - 1) \o SubSeq(seq, i + 1, Len(seq))

\* a cachedGet that stores whatever its get ended with
StoresAlways(call, resp) == call.store

\* line 153 is reached by a call that went through the cache and whose get
\* returned
Stores(call, resp) == call.store /\ resp.ok

Respond(i, resp) ==
  /\ ~update.active
  /\ i \in 1..Len(inflight)
  /\ LET call == inflight[i]
     IN /\ cache' = IF Stores(call, resp)
                    THEN CachePut(cache, call.key, resp.data, call.d * 1000, now)
                    ELSE cache
        /\ op' = [name |-> "respond", call |-> call, ok |-> resp.ok,
                  value |-> resp.data]
  /\ inflight' = Remove(inflight, i)
  /\ UNCHANGED <<apis, lastCacheDuration, update, regList, now, keyDuration, limit>>

(***************************************************************************)
(* Time. The timer that put started for an entry fires no earlier than the *)
(* entry's expiry and deletes the entry.                                   *)
(***************************************************************************)
Tick ==
  /\ ~update.active
  /\ now < MaxTime
  /\ now' = now + 1
  /\ op' = [name |-> "tick"]
  /\ UNCHANGED <<apis, cache, lastCacheDuration, update, regList, inflight,
                 keyDuration, batch, limit>>

Timeout(key) ==
  /\ ~update.active
  /\ key \in DOMAIN cache
  /\ Millis(now) >= cache[key].expire
  /\ cache' = CacheDel(cache, key)
  /\ op' = [name |-> "timeout"]
  /\ UNCHANGED <<apis, lastCacheDuration, update, regList, inflight, now,
                 keyDuration, batch, limit>>

(***************************************************************************)
(* The history of the durations: keyDuration is no state of the program.   *)
(* Track(c, d) goes with a step CachedGet(c, d) and records d for the key  *)
(* the step computed; NoTrack leaves the history alone.                    *)
(***************************************************************************)
Track(c, d) ==
  IF ~Bypass(d) /\ getApi(apis, c.apiId).found
  THEN LET key == CacheKeys[getApi(apis, c.apiId).api][c]
       IN keyDuration' = [k \in DOMAIN keyDuration \cup {key} |->
                            IF k = key THEN d ELSE keyDuration[k]]
  ELSE keyDuration' = keyDuration

NoTrack == keyDuration' = keyDuration

\* a step that is no part of a testDatasource or a query
NoBatch == batch' = batch

\* a requestJson that leaves the method to the backend
RequestJsonAnyMethod(query) ==
  IF ResolveApiId(query) # "" /\ Len(getAllApis(apis)) > 0
  THEN CachedGet(Calls[query], query.cacheDurationSeconds)
  ELSE /\ ~update.active
       /\ op' = [name |-> "requestJson", outcome |-> "legacy", query |-> query,
                 args |-> Calls[query], d |-> query.cacheDurationSeconds]
       /\ UNCHANGED <<apis, cache, lastCacheDuration, update, regList, inflight, now,
                    limit>>

(***************************************************************************)
(* requestJson(query) up to its await: the method check, and then the call *)
(* of cachedGet on the manager, or on the legacy API when no API id is     *)
(* resolved or the registry is empty. Of the legacy API the model keeps    *)
(* the arguments it is called with.                                        *)
(***************************************************************************)
RequestJson(query) ==
  IF ~\E i \in 1..Len(supportedMethods) : supportedMethods[i] = query.method
  THEN \* lines 474-476
       /\ ~update.active
       /\ op' = [name |-> "requestJson", outcome |-> "invalid_method", query |-> query]
       /\ UNCHANGED <<apis, cache, lastCacheDuration, update, regList, inflight, now,
                    limit>>
  ELSE IF ResolveApiId(query) # "" /\ Len(getAllApis(apis)) > 0
  THEN \* lines 501-511
       CachedGet(Calls[query], query.cacheDurationSeconds)
  ELSE \* lines 514-521
       /\ ~update.active
       /\ op' = [name |-> "requestJson", outcome |-> "legacy", query |-> query,
                 args |-> Calls[query], d |-> query.cacheDurationSeconds]
       /\ UNCHANGED <<apis, cache, lastCacheDuration, update, regList, inflight, now,
                    limit>>

(***************************************************************************)
(* The cache scenarios: a manager constructed with two APIs, calls of      *)
(* cachedGet, their answers, and time.                                     *)
(***************************************************************************)
Init == Construct(<<ApiA, ApiB>>)

Next ==
  \/ \E c \in CacheCalls, d \in Durations : CachedGet(c, d) /\ NoTrack /\ NoBatch
  \/ \E i \in 1..MaxInflight, resp \in Responses : Respond(i, resp) /\ NoBatch
  \/ Tick
  \/ \E key \in DOMAIN cache : Timeout(key)

Spec == Init /\ [][Next]_vars

(***************************************************************************)
(* The duration scenarios: calls of cachedGet on two keys with two         *)
(* durations and their answers, with the history of the durations.         *)
(***************************************************************************)
QuirkNext ==
  \/ \E c \in RegCalls, d \in Durations \ {0} : CachedGet(c, d) /\ Track(c, d) /\ NoBatch
  \/ \E i \in 1..MaxInflight, data \in Bodies :
       Respond(i, [ok |-> TRUE, data |-> data]) /\ NoBatch
  \/ Tick

QuirkSpec == Init /\ [][QuirkNext]_vars

(***************************************************************************)
(* The registry scenarios: construction with any list, updateApis, the     *)
(* reads, and calls of get, test and cachedGet with their answers.         *)
(***************************************************************************)
RegInit == \E list \in RegLists : Construct(list)

RegNext ==
  \/ \E list \in RegLists : UpdateApisClear(list)
  \/ UpdateApisSet
  \/ \E apiId \in ApiIds : GetApi(apiId)
  \/ GetAllApis
  \/ \E c \in RegCalls : Get(c)
  \/ \E apiId \in ApiIds : Test(apiId)
  \/ \E c \in RegCalls, d \in {0, 1} : CachedGet(c, d) /\ NoTrack /\ NoBatch
  \/ \E i \in 1..MaxInflight, resp \in Responses : Respond(i, resp) /\ NoBatch

RegSpec == RegInit /\ [][RegNext]_vars

(***************************************************************************)
(* The cache keys: lines 132-139 applied to two calls, each on one of the  *)
(* configurations.                                                         *)
(***************************************************************************)
KeyOf(api, c) == [url |-> api.url, args |-> c, key |-> CacheKeys[api][c]]

\* one comparison: the two keys are computed once
KeyProbe(api1, c1, api2, c2) ==
  /\ op.name = "new"
  /\ op' = [name |-> "keys", a |-> KeyOf(api1, c1), b |-> KeyOf(api2, c2)]
  /\ UNCHANGED <<apis, cache, lastCacheDuration, update, regList, inflight, now,
                 keyDuration, batch, limit>>

KeyNext == \E api1, api2 \in Configs, c1, c2 \in KeyCalls : KeyProbe(api1, c1, api2, c2)

KeySpec == Init /\ [][KeyNext]_vars

(***************************************************************************)
(* The URL safety scenarios: calls of get whose URLs hold dot segments,    *)
(* and their answers.                                                      *)
(***************************************************************************)
SafeInit == Construct(<<ApiH>>)

SafeNext ==
  \/ \E c \in SafeCalls : Get(c)
  \/ \E i \in 1..MaxInflight : Respond(i, [ok |-> TRUE, data |-> "{}"]) /\ NoBatch

SafeSpec == SafeInit /\ [][SafeNext]_vars

(***************************************************************************)
(* The query string scenarios: calls of get on APIs with default query     *)
(* parameters, and their answers.                                          *)
(***************************************************************************)
QueryInit == Construct(<<ApiB, ApiDup, ApiSfx>>)

QueryNext ==
  \/ \E c \in QueryCalls : Get(c)
  \/ \E i \in 1..MaxInflight, resp \in Responses : Respond(i, resp) /\ NoBatch

QuerySpec == QueryInit /\ [][QueryNext]_vars

(***************************************************************************)
(* The header scenarios: calls of get with headers, on an API without and  *)
(* on an API with a default header, and their answers.                     *)
(***************************************************************************)
HeaderNext ==
  \/ \E c \in HeaderCalls : Get(c)
  \/ \E i \in 1..MaxInflight, resp \in Responses : Respond(i, resp) /\ NoBatch

HeaderSpec == Init /\ [][HeaderNext]_vars

(***************************************************************************)
(* The body scenarios: queries with every supported method, with raw and   *)
(* custom bodies, direct calls of get with a body, and their answers.      *)
(***************************************************************************)
BodyNext ==
  \/ \E query \in BodyQueries : RequestJson(query) /\ NoTrack /\ NoBatch
  \/ \E c \in BodyCalls : Get(c)
  \/ \E i \in 1..MaxInflight, resp \in Responses : Respond(i, resp) /\ NoBatch

BodySpec == Init /\ [][BodyNext]_vars

(***************************************************************************)
(* The method scenarios: queries with supported and other methods, their   *)
(* answers, and time.                                                      *)
(***************************************************************************)
MethodNext ==
  \/ \E query \in MethodQueries : RequestJson(query) /\ NoTrack /\ NoBatch
  \/ \E i \in 1..MaxInflight, data \in Bodies :
       Respond(i, [ok |-> TRUE, data |-> data]) /\ NoBatch
  \/ Tick

MethodSpec == Init /\ [][MethodNext]_vars

(***************************************************************************)
(* The resolution scenarios: a data source with two APIs or with none,     *)
(* queries that name an API, a request type, both or neither, and their    *)
(* answers.                                                                *)
(***************************************************************************)
ResolveInit == \E list \in {<<>>, <<ApiA, ApiB>>} : Construct(list)

ResolveNext ==
  \/ \E query \in ResolveQueries : RequestJson(query) /\ NoTrack /\ NoBatch
  \/ \E i \in 1..MaxInflight, resp \in Responses : Respond(i, resp) /\ NoBatch

ResolveSpec == ResolveInit /\ [][ResolveNext]_vars

(***************************************************************************)
(* Frames: JsonDataSource.doRequest after requestJson returned, and        *)
(* groupBy. A value of a column is the JSON text of a scalar, or           *)
(* "undefined"; a field of a frame is a record [name, type, values,        *)
(* config], config being the set of its display names; a frame is a record *)
(* [name, refId, fields]. A field of a query carries what the evaluation   *)
(* of its expression on the response returned: <<"array", values>> or      *)
(* <<"scalar", value>>, a JSONPath giving the array of its matches.        *)
(***************************************************************************)
\* the kind of a raw value
KindOf(v) ==
  CASE v \in {"null", "undefined"} -> "null"
    [] v \in {"true", "false"} -> "boolean"
    [] v \in {"0", "1", "2", "3", "4", "5"} -> "number"
    [] OTHER -> "string"

\* detectFieldType: the type of the first value that is not null, and
\* string when there is none
detectFieldType(values) ==
  LET some == {i \in 1..Len(values) : KindOf(values[i]) # "null"}
  IN IF some = {} THEN "string"
     ELSE KindOf(values[CHOOSE i \in some : \A j \in some : i <= j])

\* the conversion of one raw value to a type; a value that cannot be
\* converted becomes null
ParseValue(v, type) ==
  IF KindOf(v) = "null" THEN v
  ELSE CASE type = "number" ->
              (CASE KindOf(v) = "number" -> v
                 [] v = "\"1\"" -> "1"
                 [] v = "true" -> "1"
                 [] v = "false" -> "0"
                 [] OTHER -> "null")
         [] type = "string" ->
              (CASE KindOf(v) = "string" -> v
                 [] OTHER -> "\"" \o v \o "\"")
         [] type = "boolean" ->
              (CASE KindOf(v) = "boolean" -> v
                 [] v \in {"0", "\"\""} -> "false"
                 [] OTHER -> "true")
         [] OTHER -> IF KindOf(v) = "number" THEN v ELSE "null"

\* parseValues: every value converted to the type
parseValues(values, type) == [i \in 1..Len(values) |-> ParseValue(values[i], type)]

\* line 403: Array.isArray(result) ? result : [result]
ArrayResult(result) == IF result[1] = "array" THEN result[2] ELSE <<result[2]>>

\* lines 402-410: the field of a JSONata expression; index counts the fields
\* that have an expression, count all the fields of the query
JsonataField(field, index, count) ==
  LET arrayResult == ArrayResult(field.result)
      named == Interpolate(field.name)
  IN [name |-> IF named # <<>> THEN named
               ELSE IF count > 1 THEN <<"r", "e", "s", "u", "l", "t">> \o ToDigits(index)
               ELSE <<"r", "e", "s", "u", "l", "t">>,
      type |-> IF field.type # "" THEN field.type ELSE detectFieldType(arrayResult),
      values |-> arrayResult,
      config |-> {}]

\* lines 412-428: the field of a JSONPath; field.last is the last segment of
\* the path
JsonPathField(field) ==
  LET values == field.result[2]
      propertyType == IF field.type # "" THEN field.type ELSE detectFieldType(values)
      named == Interpolate(field.name)
  IN [name |-> IF named # <<>> THEN named ELSE field.last,
      type |-> propertyType,
      values |-> parseValues(values, propertyType),
      config |-> {}]

RECURSIVE Fields(_, _, _)
\* lines 369-430: the fields of the query that have an expression, each
\* turned into a field of the frame
Fields(fields, index, count) ==
  IF fields = <<>> THEN <<>>
  ELSE IF Head(fields).jsonPath = <<>> THEN Fields(Tail(fields), index, count)
  ELSE <<IF Head(fields).language = "jsonata"
         THEN JsonataField(Head(fields), index, count)
         ELSE JsonPathField(Head(fields))>>
         \o Fields(Tail(fields), index + 1, count)

\* a length check that lets every list of fields pass
UniqueFieldLengthsOne(fields) == 1

\* lines 432-433: the number of distinct lengths of the fields
UniqueFieldLengths(fields) ==
  Cardinality({Len(fields[i].values) : i \in 1..Len(fields)})

\* toDataFrame of a name, a refId and fields
toDataFrame(name, refId, fields) == [name |-> name, refId |-> refId, fields |-> fields]

RECURSIVE Unique(_)
\* line 548, new Set(values): the distinct values, in the order of their
\* first occurrence
Unique(values) ==
  IF values = <<>> THEN <<>>
  ELSE LET n == Len(values)
           rest == Unique(SubSeq(values, 1, n - 1))
       IN IF \E i \in 1..Len(rest) : rest[i] = values[n] THEN rest
          ELSE Append(rest, values[n])

\* a filter that keeps the values equal to the group's value instead of the
\* rows of the group
RowsEqual(values, by, groupByValue, idx) ==
  SelectSeq(values, LAMBDA v : v = groupByValue)

RECURSIVE RowsWhere(_, _, _, _)
\* lines 557-559: values.filter((_, idx) => by.get(idx) === groupByValue),
\* from index idx on; past the end of by, get gives undefined
RowsWhere(values, by, groupByValue, idx) ==
  IF idx > Len(values) THEN <<>>
  ELSE (IF (IF idx <= Len(by) THEN by[idx] ELSE "undefined") = groupByValue
        THEN <<values[idx]>> ELSE <<>>)
         \o RowsWhere(values, by, groupByValue, idx + 1)

\* lines 548-568: one frame for each distinct value of the field
GroupFrames(frame, groupByField) ==
  LET uniqueValues == Unique(groupByField.values)
      others == SelectSeq(frame.fields, LAMBDA field : field.name # groupByField.name)
  IN [g \in 1..Len(uniqueValues) |->
        toDataFrame(uniqueValues[g], frame.refId,
                    [i \in 1..Len(others) |->
                       [others[i] EXCEPT
                          !.values = RowsWhere(others[i].values, groupByField.values,
                                               uniqueValues[g], 1)]])]

\* a groupBy without the early return: a field that is not found is grouped
\* as a field without values
groupByNoReturn(frame, fieldName) ==
  LET found == {i \in 1..Len(frame.fields) : frame.fields[i].name = fieldName}
  IN GroupFrames(frame,
                 IF found = {} THEN [name |-> fieldName, values |-> <<>>]
                 ELSE frame.fields[CHOOSE i \in found : \A j \in found : i <= j])

\* lines 542-571
groupBy(frame, fieldName) ==
  LET found == {i \in 1..Len(frame.fields) : frame.fields[i].name = fieldName}
  IN IF found = {} THEN <<frame>>
     ELSE GroupFrames(frame, frame.fields[CHOOSE i \in found : \A j \in found : i <= j])

\* lines 365-465: doRequest once requestJson returned json. A request is a
\* record [refId, json, fields, groupByField, metricField]; a groupByField
\* or metricField that is not set is the empty name.
doRequest(request) ==
  IF ~Truthy(request.json) THEN [error |-> "empty", frames |-> <<>>]
  ELSE LET fields == Fields(request.fields, 0, Len(request.fields))
       IN IF UniqueFieldLengths(fields) > 1 THEN [error |-> "lengths", frames |-> <<>>]
          ELSE LET frame == toDataFrame(request.refId, request.refId, fields)
                   frames == IF request.groupByField # <<>>
                             THEN groupBy(frame, request.groupByField)
                             ELSE <<frame>>
               IN [error |-> "none",
                   frames |->
                     [f \in 1..Len(frames) |->
                        [frames[f] EXCEPT
                           !.fields =
                             [i \in 1..Len(frames[f].fields) |->
                                IF frames[f].fields[i].name = request.metricField
                                THEN [frames[f].fields[i] EXCEPT
                                        !.config = {frames[f].name}]
                                ELSE frames[f].fields[i]]]]]

(***************************************************************************)
(* The inputs of the frames.                                               *)
(***************************************************************************)
\* the largest number of fields of a query
MaxFields == 3
\* the largest number of rows of a frame
MaxRows == 3

JsonField(name, jsonPath, language, type, result) ==
  [name |-> name, jsonPath |-> jsonPath, language |-> language, type |-> type,
   result |-> result, last |-> <<"w">>]

JsonFields ==
  {JsonField(<<"r">>, <<"$">>, "jsonpath", "", <<"array", <<"\"us\"", "\"eu\"", "\"us\"">>>>),
   JsonField(<<"r">>, <<"$">>, "jsonata", "", <<"array", <<"\"us\"", "\"eu\"", "\"us\"">>>>),
   JsonField(<<"r">>, <<"$">>, "jsonata", "", <<"array", <<"null", "\"1\"", "2">>>>),
   JsonField(<<"r">>, <<>>, "jsonpath", "", <<"array", <<"\"1\"">>>>),
   JsonField(VarName, <<"$">>, "", "string", <<"array", <<"1", "2", "3">>>>),
   JsonField(<<>>, <<"$">>, "jsonpath", "", <<"array", <<"1", "2", "3">>>>),
   JsonField(<<>>, <<"$">>, "jsonata", "", <<"array", <<"1", "2", "3">>>>),
   JsonField(<<>>, <<"$">>, "jsonpath", "number", <<"array", <<"null", "\"1\"", "2">>>>),
   JsonField(<<>>, <<"$">>, "jsonata", "number", <<"array", <<"null", "\"1\"", "2">>>>),
   JsonField(<<>>, <<"$">>, "jsonpath", "", <<"array", <<"null", "\"1\"", "2">>>>),
   JsonField(<<>>, <<"$">>, "jsonata", "", <<"array", <<"\"1\"">>>>),
   JsonField(<<>>, <<"$">>, "jsonpath", "", <<"array", <<>>>>),
   JsonField(<<>>, <<"$">>, "jsonata", "", <<"scalar", "\"1\"">>),
   JsonField(<<>>, <<"$">>, "jsonata", "number", <<"scalar", "undefined">>)}

DataRequest(json, fields, groupByField, metricField) ==
  [refId |-> "A", json |-> json, fields |-> fields, groupByField |-> groupByField,
   metricField |-> metricField]

DataRequests ==
  {DataRequest("{}", fields, groupByField, <<"w">>) :
     fields \in UNION {[1..n -> JsonFields] : n \in 0..MaxFields},
     groupByField \in {<<>>, <<"r">>}}
  \cup {DataRequest("0", <<>>, <<>>, <<>>)}

\* the frames given to groupBy: the columns of a frame have one length
Column(name, type, values) == [name |-> name, type |-> type, values |-> values, config |-> {}]

RegionColumns ==
  UNION {{Column(<<"r">>, "string", values) : values \in [1..n -> {"\"us\"", "\"eu\"", "null"}]} :
           n \in 0..MaxRows}

ValueColumn(name, n) == Column(name, "number", SubSeq(<<"1", "2", "3", "4", "5">>, 1, n))

DataFrames ==
  UNION {{toDataFrame("A", "A", fields) :
            fields \in {<<region>>,
                        <<region, ValueColumn(<<"v">>, Len(region.values))>>,
                        <<ValueColumn(<<"v">>, Len(region.values)), region>>,
                        <<region, ValueColumn(<<"v">>, Len(region.values)),
                          ValueColumn(<<"r">>, Len(region.values))>>,
                        <<ValueColumn(<<"v">>, Len(region.values)), region,
                          ValueColumn(<<"w">>, Len(region.values))>>}} :
           region \in RegionColumns}

(***************************************************************************)
(* The frames of a response and the groups of a frame, each computed once. *)
(***************************************************************************)
DoRequest(request) ==
  /\ op.name = "new"
  /\ op' = [name |-> "doRequest", request |-> request, result |-> doRequest(request)]
  /\ UNCHANGED <<apis, cache, lastCacheDuration, update, regList, inflight, now,
                 keyDuration, batch, limit>>

GroupBy(frame, fieldName) ==
  /\ op.name = "new"
  /\ op' = [name |-> "groupBy", frame |-> frame, fieldName |-> fieldName,
            result |-> groupBy(frame, fieldName)]
  /\ UNCHANGED <<apis, cache, lastCacheDuration, update, regList, inflight, now,
                 keyDuration, batch, limit>>

FrameNext ==
  /\ op.name = "new"
  /\ \/ \E request \in DataRequests : DoRequest(request)
     \/ \E frame \in DataFrames, fieldName \in {<<"r">>, <<"v">>, <<"z">>} :
          GroupBy(frame, fieldName)

FrameSpec == Init /\ [][FrameNext]_vars


(***************************************************************************)
(* The macros of the time range: replaceMacros, and the variables that     *)
(* doRequest binds for a JSONata expression. A time is a record [s, ms]:   *)
(* the whole seconds since the epoch and the milliseconds of the second.   *)
(* A range is optional: the empty set, or the set of one record [from,     *)
(* to]. Numbers are compared as their decimal digits.                      *)
(***************************************************************************)
\* n written with at least w digits
Padded(n, w) ==
  LET digits == ToDigits(n)
  IN [i \in 1..(w - Len(digits)) |-> "0"] \o digits

\* time.unix(): the whole seconds
unix(time) == time.s

\* time.valueOf(): the milliseconds since the epoch, as digits
valueOf(time) == IF time.s = 0 THEN ToDigits(time.ms) ELSE ToDigits(time.s) \o Padded(time.ms, 3)

\* time.toISOString(): YYYY-MM-DDTHH:mm:ss.SSSZ in UTC, the date computed
\* from the days since the epoch
toISOString(time) ==
  LET days == time.s \div 86400
      secs == time.s % 86400
      z == days + 719468
      era == z \div 146097
      doe == z % 146097
      yoe == (doe - doe \div 1460 + doe \div 36524 - doe \div 146096) \div 365
      doy == doe - (365 * yoe + yoe \div 4 - yoe \div 100)
      mp == (5 * doy + 2) \div 153
      d == doy - (153 * mp + 2) \div 5 + 1
      m == IF mp < 10 THEN mp + 3 ELSE mp - 9
      y == yoe + era * 400 + (IF m <= 2 THEN 1 ELSE 0)
  IN Padded(y, 4) \o <<"-">> \o Padded(m, 2) \o <<"-">> \o Padded(d, 2) \o <<"T">>
       \o Padded(secs \div 3600, 2) \o <<":">> \o Padded((secs % 3600) \div 60, 2)
       \o <<":">> \o Padded(secs % 60, 2) \o <<".">> \o Padded(time.ms, 3) \o <<"Z">>

UnixEpochFrom == <<"$", "_", "_", "u", "n", "i", "x", "E", "p", "o", "c", "h", "F", "r", "o", "m">>
UnixEpochTo == <<"$", "_", "_", "u", "n", "i", "x", "E", "p", "o", "c", "h", "T", "o">>
IsoFrom == <<"$", "_", "_", "i", "s", "o", "F", "r", "o", "m">>
IsoTo == <<"$", "_", "_", "i", "s", "o", "T", "o">>

\* pattern occurs in text at position i
MatchAt(text, pattern, i) ==
  /\ i + Len(pattern) - 1 <= Len(text)
  /\ SubSeq(text, i, i + Len(pattern) - 1) = pattern

\* a replace without the g flag: the first occurrence only
ReplaceFirst(text, pattern, by) ==
  LET at == {i \in 1..Len(text) : MatchAt(text, pattern, i)}
  IN IF at = {} THEN text
     ELSE LET i == CHOOSE i \in at : \A j \in at : i <= j
          IN SubSeq(text, 1, i - 1) \o by \o SubSeq(text, i + Len(pattern), Len(text))

RECURSIVE ReplaceAll(_, _, _)
\* text.replace(/pattern/g, by): every occurrence, from the left
ReplaceAll(text, pattern, by) ==
  IF text = <<>> THEN <<>>
  ELSE IF MatchAt(text, pattern, 1)
       THEN by \o ReplaceAll(SubSeq(text, Len(pattern) + 1, Len(text)), pattern, by)
  ELSE <<Head(text)>> \o ReplaceAll(Tail(text), pattern, by)

\* lines 532-540
replaceMacros(str, range) ==
  IF range # {}
  THEN LET r == CHOOSE r \in range : TRUE
       IN ReplaceAll(
            ReplaceAll(
              ReplaceAll(
                ReplaceAll(str, UnixEpochFrom \o <<"(", ")">>, ToDigits(unix(r.from))),
                UnixEpochTo \o <<"(", ")">>, ToDigits(unix(r.to))),
              IsoFrom \o <<"(", ")">>, toISOString(r.from)),
            IsoTo \o <<"(", ")">>, toISOString(r.to))
  ELSE str

\* lines 393-398: the variables of the range bound for a JSONata expression,
\* named without the dollar sign
RangeBindings(range) ==
  IF range # {}
  THEN LET r == CHOOSE r \in range : TRUE
       IN <<(<<Tail(UnixEpochFrom), valueOf(r.from)>>),
            (<<Tail(UnixEpochTo), valueOf(r.to)>>),
            (<<Tail(IsoFrom), toISOString(r.from)>>),
            (<<Tail(IsoTo), toISOString(r.to)>>)>>
  ELSE <<>>

(***************************************************************************)
(* The inputs of the macros: texts of up to MaxTokens tokens, and ranges.  *)
(***************************************************************************)
MaxTokens == 3

Tokens ==
  {UnixEpochFrom \o <<"(", ")">>, UnixEpochTo \o <<"(", ")">>, IsoFrom \o <<"(", ")">>,
   IsoTo \o <<"(", ")">>, UnixEpochFrom, <<"-">>, <<"$", "_", "_", "f", "(", ")">>,
   <<"$">>}

RECURSIVE Texts(_)
Texts(n) == IF n = 0 THEN {<<>>} ELSE {<<>>} \cup {t \o rest : t \in Tokens, rest \in Texts(n - 1)}

Ranges ==
  {{}} \cup {{[from |-> from, to |-> to]} :
               from \in {[s |-> 1700000000, ms |-> 0], [s |-> 0, ms |-> 7]},
               to \in {[s |-> 1700003600, ms |-> 0], [s |-> 1709251199, ms |-> 999]}}

ReplaceMacros(str, range) ==
  /\ op' = [name |-> "replaceMacros", str |-> str, range |-> range,
            result |-> replaceMacros(str, range)]
  /\ UNCHANGED <<apis, cache, lastCacheDuration, update, regList, inflight, now,
                 keyDuration, batch, limit>>

Bindings(range) ==
  /\ op' = [name |-> "bindings", range |-> range, bindings |-> RangeBindings(range)]
  /\ UNCHANGED <<apis, cache, lastCacheDuration, update, regList, inflight, now,
                 keyDuration, batch, limit>>

MacroNext ==
  /\ op.name = "new"
  /\ \/ \E str \in Texts(MaxTokens), range \in Ranges : ReplaceMacros(str, range)
     \/ \E range \in Ranges : Bindings(range)

MacroSpec == Init /\ [][MacroNext]_vars

(***************************************************************************)
(* testDatasource with configured APIs. It calls test for every API of the *)
(* settings at once, awaits them all and then aggregates. Of               *)
(* batch, slots holds one result for each API, in the order of the         *)
(* settings: "pending" until the test settled. The k-th request in flight  *)
(* belongs to the k-th pending slot. The answer to a test is a response    *)
(* [ok |-> TRUE, status, statusText] or a rejection [ok |-> FALSE,         *)
(* message].                                                               *)
(***************************************************************************)
defaultErrorMessage == "Cannot connect to API"

\* the message of the error that test throws before it sends
Thrown(error, apiId) ==
  CASE error = "not_found" -> "API with ID '" \o apiId \o "' not found"
    [] error = "unsafe" -> "URL path contains unsafe characters"
    [] OTHER -> "URI malformed"

\* a health check that takes every status for a success
Status200Any(status) == TRUE

\* lines 312-313: response.status === 200
Status200(status) == status = 200

\* lines 309-321: the result of the test of apiConfig that settled with resp
TestResult(apiConfig, resp) ==
  IF resp.ok
  THEN [apiName |-> apiConfig.name,
        status |-> IF Status200(resp.status) THEN "success" ELSE "error",
        message |-> IF Status200(resp.status) THEN "Success"
                    ELSE IF resp.statusText # "" THEN resp.statusText
                    ELSE defaultErrorMessage,
        response |-> {resp}]
  ELSE [apiName |-> apiConfig.name,
        status |-> "error",
        message |-> IF resp.message # "" THEN resp.message ELSE defaultErrorMessage,
        response |-> {resp}]

RECURSIVE JoinText(_, _)
\* texts.join(by)
JoinText(texts, by) ==
  IF texts = <<>> THEN ""
  ELSE IF Len(texts) = 1 THEN texts[1]
  ELSE texts[1] \o by \o JoinText(Tail(texts), by)

\* an aggregate that fails as soon as one test failed
AggregateAll(results) ==
  LET failedTests == SelectSeq(results, LAMBDA r : r.status = "error")
  IN IF failedTests = <<>>
     THEN [rejected |-> FALSE, status |-> "success", message |-> "All"]
     ELSE [rejected |-> TRUE, status |-> "error", message |-> "Failed"]

\* lines 335-357
Aggregate(results) ==
  LET failedTests == SelectSeq(results, LAMBDA r : r.status = "error")
      successfulTests == SelectSeq(results, LAMBDA r : r.status = "success")
      names == JoinText([i \in 1..Len(successfulTests) |-> successfulTests[i].apiName], ", ")
      failed == JoinText([i \in 1..Len(failedTests) |->
                            failedTests[i].apiName \o " (" \o failedTests[i].message \o ")"],
                         ", ")
  IN IF Len(failedTests) = 0
     THEN [rejected |-> FALSE, status |-> "success",
           message |-> "All APIs connected successfully: " \o names]
     ELSE IF Len(successfulTests) > 0
     THEN [rejected |-> FALSE, status |-> "success",
           message |-> "Some APIs connected successfully: " \o names
                         \o ". Failed: " \o failed]
     ELSE [rejected |-> TRUE, status |-> "error",
           message |-> "All API connections failed: " \o failed]

\* the slot of a test that awaits its response
PendingTest(apiConfig) ==
  [apiName |-> apiConfig.name, status |-> "pending", message |-> "", response |-> {}]

\* the batch once the slots are as given: the aggregate when none is pending
Tested(slots) ==
  IF \E k \in 1..Len(slots) : slots[k].status = "pending"
  THEN [kind |-> "test", todo |-> <<>>, slots |-> slots, result |-> {}]
  ELSE [kind |-> "none", todo |-> <<>>, slots |-> slots, result |-> {Aggregate(slots)}]

\* lines 259-333 up to the await: apiConfigs is the list of the settings, the
\* one the manager was constructed with
TestDatasource ==
  /\ ~update.active
  /\ batch.kind = "none"
  /\ LET apiConfigs == regList
         outcome == [k \in 1..Len(apiConfigs) |-> TestOutcome(apis, apiConfigs[k].id)]
         sent == SelectSeq([k \in 1..Len(apiConfigs) |-> k],
                           LAMBDA k : outcome[k].error = "none")
     IN IF Len(apiConfigs) = 0
        THEN /\ op' = [name |-> "testDatasource", outcome |-> "legacy"]
             /\ UNCHANGED <<inflight, batch>>
        ELSE /\ Len(inflight) + Len(sent) <= limit
             /\ inflight' = inflight \o
                  [j \in 1..Len(sent) |->
                     Pending("test",
                             Args(apiConfigs[sent[j]].id, "GET", <<>>, <<>>, <<>>, <<>>),
                             FALSE, <<>>, 0, outcome[sent[j]])]
             /\ batch' = Tested([k \in 1..Len(apiConfigs) |->
                                   IF outcome[k].error = "none"
                                   THEN PendingTest(apiConfigs[k])
                                   ELSE TestResult(apiConfigs[k],
                                          [ok |-> FALSE,
                                           message |-> Thrown(outcome[k].error,
                                                              apiConfigs[k].id)])])
             /\ op' = [name |-> "testDatasource", outcome |-> "tests",
                       apiConfigs |-> apiConfigs]
  /\ UNCHANGED <<apis, cache, lastCacheDuration, update, regList, now, keyDuration, limit>>

\* the index of the slot of the i-th request in flight
SlotOf(slots, i) ==
  CHOOSE k \in 1..Len(slots) :
    /\ slots[k].status = "pending"
    /\ Cardinality({j \in 1..k : slots[j].status = "pending"}) = i

\* the i-th test settles with resp; after the last one testDatasource returns
TestSettles(i, resp) ==
  /\ batch.kind = "test"
  /\ Respond(i, resp)
  /\ LET k == SlotOf(batch.slots, i)
     IN batch' = Tested([batch.slots EXCEPT ![k] = TestResult(regList[k], resp)])

(***************************************************************************)
(* The health check scenarios.                                             *)
(***************************************************************************)
TestResponses ==
  {[ok |-> TRUE, data |-> "{}", status |-> 200, statusText |-> "OK"],
   [ok |-> TRUE, data |-> "{}", status |-> 204, statusText |-> "No Content"],
   [ok |-> TRUE, data |-> "{}", status |-> 201, statusText |-> ""],
   [ok |-> FALSE, data |-> "null", message |-> ""],
   [ok |-> FALSE, data |-> "null", message |-> "Failed to fetch"]}

TestInit ==
  \E list \in {<<>>, <<ApiB>>, <<ApiA, ApiB>>, <<ApiB, ApiUp>>, <<ApiUp>>, <<ApiA, ApiA2>>,
               <<ApiA, ApiUp, ApiB>>, <<ApiA, ApiB, ApiA2>>} :
    Constructed(list, MaxInflight + 1)

TestNext ==
  \/ TestDatasource
  \/ \E i \in 1..limit, resp \in TestResponses : TestSettles(i, resp)

TestSpec == TestInit /\ [][TestNext]_vars

(***************************************************************************)
(* The URL that _request builds, for base URLs and paths with slashes,     *)
(* colons and question marks in every place.                               *)
(***************************************************************************)
MaxPath == 3

RECURSIVE Paths(_)
\* the paths of up to n characters
Paths(n) ==
  IF n = 0 THEN {<<>>}
  ELSE {<<>>} \cup {<<ch>> \o rest : ch \in {"/", ":", "a", "?"}, rest \in Paths(n - 1)}

BaseUrls ==
  {<<"h", ":", "/", "/", "h">>,
   <<"h", ":", "/", "/", "h", "/">>,
   <<"h", ":", "/", "/", "h", "/", "/", "a", "/", "/">>,
   <<"h", ":", "/", "/", "/", "h">>,
   <<"/", "/", "h", "/">>}

ParamsDatas ==
  {<<>>, <<(<<(<<"q">>), (<<"1">>)>>)>>, <<(<<(<<"q">>), (<<"1">>)>>), (<<(<<"r">>), (<<"/", "/">>)>>)>>}

\* lines 180-193: the URL of the request for path on the API at base
BuildUrl(base, path, params) ==
  /\ op' = [name |-> "_request", base |-> base, path |-> path, params |-> params,
            fullUrl |-> FullUrl([url |-> base], path, params)]
  /\ UNCHANGED <<apis, cache, lastCacheDuration, update, regList, inflight, now,
                 keyDuration, batch, limit>>

UrlNext ==
  /\ op.name = "new"
  /\ \E base \in BaseUrls, path \in Paths(MaxPath), params \in ParamsDatas :
       BuildUrl(base, path, params)

UrlSpec == Init /\ [][UrlNext]_vars

(***************************************************************************)
(* The overlapping scenarios: calls of cachedGet that go through the       *)
(* cache, one more in flight than elsewhere, their answers in any order,   *)
(* and time.                                                               *)
(***************************************************************************)
RaceInit == Constructed(<<ApiA, ApiB>>, MaxInflight + 1)

RaceNext ==
  \/ \E c \in RegCalls, d \in {1, 2} : CachedGet(c, d) /\ NoTrack /\ NoBatch
  \/ \E i \in 1..limit, resp \in Responses : Respond(i, resp) /\ NoBatch
  \/ Tick
  \/ \E key \in DOMAIN cache : Timeout(key)

RaceSpec == RaceInit /\ [][RaceNext]_vars

(***************************************************************************)
(* The replacement scenarios: updateApis with lists that keep the URL of   *)
(* API A and change its default query parameters and headers, or change    *)
(* its URL, between calls of cachedGet, their answers, and time.           *)
(***************************************************************************)
SwapNext ==
  \/ \E list \in {<<ApiA, ApiB>>, <<ApiAH, ApiB>>, <<ApiA2>>} : UpdateApisClear(list)
  \/ UpdateApisSet
  \/ \E d \in {1, 2} : CachedGet(GetAX, d) /\ NoTrack /\ NoBatch
  \/ \E i \in 1..MaxInflight, resp \in Responses : Respond(i, resp) /\ NoBatch
  \/ Tick

SwapSpec == Init /\ [][SwapNext]_vars

(***************************************************************************)
(* query(request). A target is [refId, hide, query, fields, groupByField]. *)
(* query calls doRequest for every target that is not hidden, one after    *)
(* the other and each up to its await, then awaits them all. Of batch,     *)
(* todo holds the targets whose doRequest has not started and slots one    *)
(* result for each started target, in the order of the targets: "pending"  *)
(* while its request is awaited. The k-th request in flight belongs to the *)
(* k-th pending slot. result is what query returned: the frames, or the    *)
(* rejection of Promise.all as soon as one doRequest failed.               *)
(***************************************************************************)
\* lines 217-218: request.targets.filter((query) => !query.hide)
Shown(targets) == SelectSeq(targets, LAMBDA target : ~target.hide)

RECURSIVE FlatFramesReversed(_)
\* the frames of the targets, the last target first
FlatFramesReversed(slots) ==
  IF slots = <<>> THEN <<>> ELSE FlatFramesReversed(Tail(slots)) \o Head(slots).frames

RECURSIVE FlatFrames(_)
\* line 224: res.flatMap((frames) => frames)
FlatFrames(slots) ==
  IF slots = <<>> THEN <<>> ELSE Head(slots).frames \o FlatFrames(Tail(slots))

\* the slot of a target whose doRequest awaits the response, or failed
Slot(target, status) == [target |-> target, status |-> status, frames |-> <<>>]

\* lines 363-460 after the await: the slot of a target whose requestJson
\* returned json
Settled(target, json) ==
  LET r == doRequest([refId |-> target.refId, json |-> json, fields |-> target.fields,
                      groupByField |-> target.groupByField, metricField |-> <<"w">>])
  IN IF r.error = "none"
     THEN [target |-> target, status |-> "done", frames |-> r.frames]
     ELSE Slot(target, "failed")

\* lines 221-224: the batch when todo is left and the slots are as given
Queried(todo, slots) ==
  LET pending == \E k \in 1..Len(slots) : slots[k].status = "pending"
      failed == \E k \in 1..Len(slots) : slots[k].status = "failed"
  IN [kind |-> IF todo = <<>> /\ ~pending THEN "none" ELSE "query",
      todo |-> todo,
      slots |-> slots,
      result |-> IF failed THEN {[rejected |-> TRUE, data |-> <<>>]}
                 ELSE IF todo = <<>> /\ ~pending
                 THEN {[rejected |-> FALSE, data |-> FlatFrames(slots)]}
                 ELSE {}]

\* lines 215-218: query is entered
QueryTargets(targets) ==
  /\ ~update.active
  /\ batch.kind = "none"
  /\ inflight = <<>>
  /\ batch' = Queried(Shown(targets), <<>>)
  /\ op' = [name |-> "query", targets |-> targets]
  /\ UNCHANGED <<apis, cache, lastCacheDuration, update, regList, inflight, now,
                 keyDuration, limit>>

\* lines 219 and 361-364: doRequest of the next target, up to its await
DoTarget ==
  /\ batch.kind = "query"
  /\ batch.todo # <<>>
  /\ LET target == Head(batch.todo)
     IN /\ RequestJson(target.query)
        /\ batch' = Queried(Tail(batch.todo),
                            Append(batch.slots,
                                   IF op'.name = "cachedGet" /\ op'.outcome = "hit"
                                   THEN Settled(target, op'.value)
                                   ELSE IF op'.name = "cachedGet" /\ op'.outcome = "sent"
                                   THEN Slot(target, "pending")
                                   ELSE Slot(target, "failed")))
  /\ NoTrack

\* the request of a target settles with resp
TargetSettles(i, resp) ==
  /\ batch.kind = "query"
  /\ batch.todo = <<>>
  /\ Respond(i, resp)
  /\ LET k == SlotOf(batch.slots, i)
         target == batch.slots[k].target
     IN batch' = Queried(<<>>, [batch.slots EXCEPT
                                  ![k] = IF resp.ok THEN Settled(target, resp.data)
                                         ELSE Slot(target, "failed")])

(***************************************************************************)
(* The query scenarios: up to three targets, shown and hidden, two of them *)
(* on one cache key, one with two frames and one whose method is invalid.  *)
(***************************************************************************)
Target(refId, hide, method, fields, groupByField) ==
  [refId |-> refId, hide |-> hide, query |-> Query(method, "a", "", <<>>, {}, PathX, 1),
   fields |-> fields, groupByField |-> groupByField]

RegionField ==
  JsonField(<<"r">>, <<"$">>, "jsonpath", "", <<"array", <<"\"us\"", "\"eu\"", "\"us\"">>>>)

NumberField == JsonField(<<"n">>, <<"$">>, "jsonpath", "", <<"array", <<"1", "2", "3">>>>)

Targets ==
  {Target("A", FALSE, "GET", <<RegionField, NumberField>>, <<"r">>),
   Target("B", FALSE, "POST", <<NumberField>>, <<>>),
   Target("H", TRUE, "GET", <<NumberField>>, <<>>),
   Target("E", FALSE, "HEAD", <<NumberField>>, <<>>)}

MaxTargets == 3

TargetsInit == Constructed(<<ApiA, ApiB>>, MaxTargets)

TargetsNext ==
  \/ \E n \in 0..MaxTargets : \E targets \in [1..n -> Targets] : QueryTargets(targets)
  \/ DoTarget
  \/ \E i \in 1..limit, resp \in Responses : TargetSettles(i, resp)

TargetsSpec == TargetsInit /\ [][TargetsNext]_vars
(***************************************************************************)
(* The properties.                                                         *)
(***************************************************************************)
\* the last step was a call of cachedGet that went through the cache: its
\* duration is not falsy and its API is registered
Cached(o) == o.name = "cachedGet" /\ o.d > 0 /\ o.outcome # "not_found"

\* the entry under key is there and its lifetime is not over at clock t
Unexpired(c, key, t) == key \in DOMAIN c /\ t * 1000 < c[key].expire

\* the entry under key is there and its lifetime is over at clock t
Expired(c, key, t) == key \in DOMAIN c /\ t * 1000 > c[key].expire

\* C1: a cachedGet with duration d > 0 whose key was last computed with the
\* same d and whose response is stored returns the stored data and issues no
\* dispatch while the d seconds have not elapsed, and issues exactly one new
\* dispatch once they have elapsed.
C1_RepeatWithinTtlIsServed ==
  [][(Cached(op') /\ op'.key \in DOMAIN keyDuration /\ keyDuration[op'.key] = op'.d)
       => /\ Unexpired(cache, op'.key, now)
               => /\ op'.outcome = "hit"
                  /\ op'.value = cache[op'.key].value
                  /\ op'.dispatches = 0
                  /\ inflight' = inflight
          /\ Expired(cache, op'.key, now) => op'.dispatches = 1]_vars

\* C2: a cachedGet with duration d > 0 on a registered API whose d differs
\* from the last observed duration does not serve the entry under its key and
\* leaves none under it, and no cachedGet removes or changes the entry of
\* another key.
C2_SingleKeyEviction ==
  [][Cached(op')
       => /\ lastCacheDuration # {op'.d}
               => op'.outcome # "hit" /\ op'.key \notin DOMAIN cache'
          /\ \A k \in DOMAIN cache \ {op'.key} :
               k \in DOMAIN cache' /\ cache'[k] = cache[k]]_vars

\* C2 witness: the duration rule deleted the entry of the key of the last
\* cachedGet, and the entry of another key is still there.
C2_Witness ==
  /\ Cached(op)
  /\ op.evicted
  /\ \E k \in DOMAIN cache : k # op.key

\* C3, as claimed: an unexpired entry is evicted by a cachedGet if and only if
\* the duration differs from the duration of the previous call that computed
\* the same key.
C3_PerKeyDurationRule ==
  [][(Cached(op') /\ Unexpired(cache, op'.key, now) /\ op'.key \in DOMAIN keyDuration)
       => (op'.key \notin DOMAIN cache' <=> keyDuration[op'.key] # op'.d)]_vars

\* C3, amended: an unexpired entry is evicted by a cachedGet if and only if the
\* duration differs from the last observed duration, whatever key that one
\* was observed on; the rule of the claim follows when the last observed
\* duration is the one the key was last computed with.
C3_LastDurationRule ==
  [][(Cached(op') /\ Unexpired(cache, op'.key, now))
       => /\ op'.key \notin DOMAIN cache' <=> lastCacheDuration # {op'.d}
          /\ (op'.key \in DOMAIN keyDuration
                /\ lastCacheDuration = {keyDuration[op'.key]})
               => (op'.key \notin DOMAIN cache' <=> keyDuration[op'.key] # op'.d)]_vars

\* C3 witness: the last cachedGet lost its entry to the duration rule after
\* another key was computed with another duration.
C3_Witness ==
  /\ Cached(op)
  /\ op.evicted
  /\ \E k \in DOMAIN keyDuration : k # op.key /\ keyDuration[k] # op.d

\* the cache key of the request of call c, when its API is registered
KeyNow(c) == CacheKeys[getApi(apis, c.apiId).api][c]

\* C4: a cachedGet with a falsy duration calls get exactly once and never
\* serves from the cache, and neither the call nor the rest of it after the
\* answer changes the cache or the last observed duration.
C4_BypassLeavesCache ==
  [][/\ (op'.name = "cachedGet" /\ op'.d = 0)
          => /\ op'.dispatches = 1
             /\ op'.outcome # "hit"
             /\ cache' = cache
             /\ lastCacheDuration' = lastCacheDuration
     /\ (op'.name = "respond" /\ op'.call.kind = "cachedGet" /\ op'.call.d = 0)
          => /\ cache' = cache
             /\ lastCacheDuration' = lastCacheDuration]_vars

\* C4 witness: a cachedGet with duration 0 returned the answer to its own
\* request while an unexpired entry with another value was stored for the
\* same request.
C4_Witness ==
  /\ op.name = "respond"
  /\ op.call.kind = "cachedGet"
  /\ op.call.d = 0
  /\ op.ok
  /\ getApi(apis, op.call.args.apiId).found
  /\ Unexpired(cache, KeyNow(op.call.args), now)
  /\ cache[KeyNow(op.call.args)].value # op.value

\* C5: a cachedGet that finds an unexpired entry under its key, and whose
\* duration is the last observed one, returns the stored response and issues
\* no dispatch, whatever the stored value is.
C5_UnexpiredEntryIsServed ==
  [][(Cached(op') /\ lastCacheDuration = {op'.d} /\ Unexpired(cache, op'.key, now))
       => /\ op'.outcome = "hit"
          /\ op'.value = cache[op'.key].value
          /\ op'.dispatches = 0
          /\ inflight' = inflight]_vars

\* C6: a cachedGet with d > 0 that misses calls get exactly once and writes
\* nothing before the answer; a request is in flight exactly when get did not
\* throw. The answer 2xx is stored under the key with expiry d seconds after
\* the store and is returned; a failure writes nothing and starts no request.
C6_MissDispatchesOnceAndStores ==
  [][/\ (Cached(op') /\ op'.outcome # "hit")
          => /\ op'.dispatches = 1
             /\ \A k \in DOMAIN cache' : k \in DOMAIN cache /\ cache'[k] = cache[k]
             /\ IF op'.outcome = "sent"
                THEN /\ Len(inflight') = Len(inflight) + 1
                     /\ inflight'[Len(inflight')].key = op'.key
                ELSE inflight' = inflight
     /\ (op'.name = "respond" /\ op'.call.store)
          => /\ Len(inflight') = Len(inflight) - 1
             /\ IF op'.ok
                THEN /\ DOMAIN cache' = DOMAIN cache \cup {op'.call.key}
                     /\ cache'[op'.call.key] =
                          [value |-> op'.value, expire |-> (now + op'.call.d) * 1000]
                     /\ \A k \in DOMAIN cache \ {op'.call.key} : cache'[k] = cache[k]
                ELSE cache' = cache]_vars

\* C6 witness: the answer to a miss was stored under the key of the call,
\* with the expiry of its duration.
C6_Witness ==
  /\ op.name = "respond"
  /\ op.call.store
  /\ op.ok
  /\ op.call.key \in DOMAIN cache
  /\ cache[op.call.key] = [value |-> op.value, expire |-> (now + op.call.d) * 1000]

\* C7: the cache keys of two calls with the same base URL and path are equal
\* if and only if their parameter lists are equal, element by element and in
\* order; the method, the headers and the body have no part in the key.
C7_KeyOfUrlPathParams ==
  (op.name = "keys" /\ op.a.url = op.b.url /\ op.a.args.path = op.b.args.path)
    => (op.a.key = op.b.key <=> op.a.args.params = op.b.args.params)

\* C7 witness: two calls that differ in method, headers and body were given
\* the same key.
C7_Witness ==
  /\ op.name = "keys"
  /\ op.a.key = op.b.key
  /\ op.a.args.method # op.b.args.method
  /\ op.a.args.headers # op.b.args.headers
  /\ op.a.args.body # op.b.args.body
  /\ Len(op.a.args.params) = 2

\* C8: get, cachedGet and test on an id the registry does not hold throw the
\* not-found error, send no request, and leave the cache, the last observed
\* duration and the registry as they were.
C8_UnknownApiChangesNothing ==
  [][(op'.name \in {"get", "cachedGet", "test"}
        /\ \A i \in 1..Len(apis) : apis[i].id # op'.args.apiId)
       => /\ op'.outcome = "not_found"
          /\ inflight' = inflight
          /\ cache' = cache
          /\ lastCacheDuration' = lastCacheDuration
          /\ apis' = apis]_vars

\* C8 witness: a cachedGet with a duration met an id that is not registered
\* while the cache held an entry and a duration had been observed.
C8_Witness ==
  /\ op.name = "cachedGet"
  /\ op.d > 0
  /\ op.outcome = "not_found"
  /\ DOMAIN cache # {}
  /\ lastCacheDuration # {}

\* the positions of the list that hold a configuration with this id
Positions(list, id) == {i \in 1..Len(list) : list[i].id = id}

\* the last configuration of the list with this id
LastWith(list, id) ==
  list[CHOOSE i \in Positions(list, id) : \A j \in Positions(list, id) : j <= i]

\* C9: once the constructor or updateApis has returned, getApi gives for
\* every id the last configuration of the list with that id and nothing for
\* an id the list does not have, and getAllApis gives one configuration for
\* each id of the list.
C9_RegistryIsTheList ==
  ~update.active
    => /\ \A id \in ApiIds :
            getApi(apis, id) =
              IF Positions(regList, id) = {} THEN [found |-> FALSE]
              ELSE [found |-> TRUE, api |-> LastWith(regList, id)]
       /\ LET all == getAllApis(apis)
          IN /\ Len(all) = Cardinality({regList[i].id : i \in 1..Len(regList)})
             /\ \A i \in 1..Len(all) : all[i] = LastWith(regList, all[i].id)
       /\ op.name = "getApi" => op.result = getApi(apis, op.apiId)
       /\ op.name = "getAllApis" => op.result = getAllApis(apis)

\* C9 witness: after a list that holds an id twice, getApi returned the later
\* of the two configurations.
C9_Witness ==
  /\ op.name = "getApi"
  /\ op.apiId = "a"
  /\ regList = <<ApiA, ApiB, ApiA2>>
  /\ op.result = [found |-> TRUE, api |-> ApiA2]

\* the steps that read the registry
Reads == {"getApi", "getAllApis", "get", "cachedGet", "test"}

\* C10: whatever requests are in flight, a step that reads the registry runs
\* while no updateApis is between its clear and its last set, and finds in
\* the registry the whole list of the last updateApis or of the constructor:
\* the registry from before a replace or the one from after it, never the
\* cleared or a partly filled one.
C10_ReadsSeeWholeRegistry ==
  op.name \in Reads
    => /\ update = Idle
       /\ apis = MapSetAll(<<>>, regList)

\* C10 witness: the registry was read while a request was in flight that had
\* been sent for an API of the list from before the last updateApis.
C10_Witness ==
  /\ op.name \in Reads
  /\ inflight # <<>>
  /\ \A i \in 1..Len(apis) : apis[i].id # inflight[1].args.apiId

\* the full URL of the request that get(c) builds, for a registered API
FullUrlOf(c) ==
  LET api == getApi(apis, c.apiId).api
  IN FullUrl(api, c.path, ParamsData(api, c.params))

\* the URL with its backslashes replaced by slashes and then percent-decoded
\* holds a dot segment or a tab
DotSegmentOrTab(url) ==
  LET u == PercentDecode(ReplaceChar(url, "\\", "/"))
  IN \/ \E i \in 1..Len(u) : u[i] = "\t"
     \/ \E i \in 1..(Len(u) - 2) :
          /\ SubSeq(u, i, i + 2) = <<"/", ".", ".">>
          /\ (i + 2 = Len(u) \/ u[i + 3] \in {"/", "?"})

HostAUpB == <<"h", "t", "t", "p", ":", "/", "/", "h", "o", "s", "t", "/", "a", "/", ".", ".", "/", "b">>
HostAEscapedUpB == <<"h", "t", "t", "p", ":", "/", "/", "h", "o", "s", "t", "/", "a", "%", "2", "f", ".", ".", "%", "2", "f", "b">>
HostAB == <<"h", "t", "t", "p", ":", "/", "/", "h", "o", "s", "t", "/", "a", "/", "b">>

\* for every call on the API of http://host/a: its full URL, whether the URL
\* can be decoded, and whether it holds a dot segment or a tab
SafeUrls ==
  [c \in SafeCalls |->
     LET full == FullUrl(ApiH, c.path, ParamsData(ApiH, c.params))
     IN [full |-> full,
         decodable |-> ~Malformed(ReplaceChar(full, "\\", "/")),
         dots |-> DotSegmentOrTab(full)]]

\* C11: get throws the unsafe-URL error exactly when the full URL, with its
\* backslashes replaced by slashes and then percent-decoded, contains "/../",
\* ends with "/..", contains "/..?" or contains a tab (a URL that cannot be
\* decoded makes the decoding throw instead); a rejected request is not sent
\* and an accepted one is sent to the full URL. http://host/a/../b and
\* http://host/a%2f..%2fb are rejected, http://host/a/b is accepted.
C11_UnsafeUrlsAreRejected ==
  [][(op'.name = "get" /\ op'.outcome # "not_found" /\ op'.args \in SafeCalls
        /\ getApi(apis, op'.args.apiId).api = ApiH)
       => LET url == SafeUrls[op'.args]
          IN /\ op'.outcome = "unsafe" <=> (url.decodable /\ url.dots)
             /\ op'.outcome = "URIError" <=> ~url.decodable
             /\ op'.outcome # "sent" => inflight' = inflight
             /\ op'.outcome = "sent"
                  => /\ Len(inflight') = Len(inflight) + 1
                     /\ inflight'[Len(inflight')].req.url = url.full
             /\ url.full \in {HostAUpB, HostAEscapedUpB} => op'.outcome = "unsafe"
             /\ url.full = HostAB => op'.outcome = "sent"]_vars

\* C11 witness: the URL with the escaped dot segment was rejected while the
\* request to http://host/a/b was in flight.
C11_Witness ==
  /\ op.name = "get"
  /\ op.outcome = "unsafe"
  /\ FullUrlOf(op.args) = HostAEscapedUpB
  /\ Len(inflight) = 1
  /\ inflight[1].req.url = HostAB

\* the URL that carries the declared default parameters of the API and then
\* the call-supplied parameters with a key, every one under its own key
DeclaredUrl(api, c) ==
  AppendQuery(DedupSlashes(api.url \o c.path),
              URLSearchParams(api.queryParams) \o WithKey(c.params), FALSE)

\* C12: the query string of the request that get sends holds the default
\* query parameters of the API, each with its declared key and value, and
\* after them every call-supplied parameter with a non-empty key, in call
\* order and with its own key and value.
C12_QueryIsDefaultsThenParams ==
  [][(op'.name = "get" /\ op'.outcome = "sent")
       => inflight'[Len(inflight')].req.url =
            DeclaredUrl(getApi(apis, op'.args.apiId).api, op'.args)]_vars

\* the headers that get merges for call c: the API's, then the call's
MergedHeaders(c) == getApi(apis, c.apiId).api.headers \o c.headers

\* the pairs of list at increasing positions that make up sub
IsSubsequence(sub, list) ==
  \E f \in [1..Len(sub) -> 1..Len(list)] :
    /\ \A i \in 1..Len(sub) : list[f[i]] = sub[i]
    /\ \A i, j \in 1..Len(sub) : i < j => f[i] < f[j]

\* C13, as claimed: the headers of the request that get sends hold every
\* default header of the API and after them every call-supplied header, an
\* entry for each even when two have the same key.
C13_AllHeadersKept ==
  [][(op'.name = "get" /\ op'.outcome = "sent")
       => IsSubsequence(WithKey(MergedHeaders(op'.args)),
                        inflight'[Len(inflight')].req.headers)]_vars

\* C13, amended: the headers of the request that get sends hold one entry for
\* every distinct key among Content-Type, the default headers and the
\* call-supplied headers with a non-empty key; the entry carries the value
\* of the last header with that key, defaults first and call-supplied after,
\* so that a call-supplied header replaces the default of the same key.
C13_LastHeaderOfKeyWins ==
  [][(op'.name = "get" /\ op'.outcome = "sent")
       => LET sent == inflight'[Len(inflight')].req.headers
              all == <<(<<ContentType, ApplicationJson>>)>> \o MergedHeaders(op'.args)
              given == {i \in 1..Len(all) : all[i][1] # <<>>}
          IN /\ \A i, j \in 1..Len(sent) : sent[i][1] = sent[j][1] => i = j
             /\ {sent[i][1] : i \in 1..Len(sent)} = {all[i][1] : i \in given}
             /\ \A i \in 1..Len(sent) :
                  \E j \in given :
                    /\ all[j] = sent[i]
                    /\ \A k \in given : all[k][1] = all[j][1] => k <= j]_vars

\* C13 witness: a request was sent on the API with the default X-Key=k1 by a
\* call with X-Key=k2, and its headers hold X-Key=k2 and not X-Key=k1.
C13_Witness ==
  /\ op.name = "get"
  /\ op.outcome = "sent"
  /\ op.args.apiId = "b"
  /\ op.args.headers = <<HeaderK2>>
  /\ LET sent == inflight[Len(inflight)].req.headers
     IN /\ \E i \in 1..Len(sent) : sent[i] = HeaderK2
        /\ \A i \in 1..Len(sent) : sent[i] # <<XKey, (<<"k", "1">>)>>

\* the body that the caller of requestJson supplied: the custom body of a
\* query with a request type, else the raw body; with its variables replaced
CallerBody(query) ==
  Interpolate(IF query.requestType # "" /\ query.customBody # {}
              THEN CHOOSE text \in query.customBody : TRUE ELSE query.body)

\* C14: no request in flight with method GET carries data, whether it comes
\* from requestJson or from a direct call of get with a body; a request that
\* requestJson sends with another supported method carries the caller's
\* body when that body is not empty; and the legacy API is handed an empty
\* body with GET.
C14_NoBodyWithGet ==
  [][/\ \A i \in 1..Len(inflight') :
          inflight'[i].req.method = "GET"
            => ~inflight'[i].req.hasData /\ inflight'[i].req.data = <<>>
     /\ op'.name \in {"cachedGet", "requestJson"}
          => \A query \in QueriesOf[op'.args] :
               RequestJson(query)
                 => /\ (op'.name = "cachedGet" /\ op'.outcome = "sent")
                         => LET req == inflight'[Len(inflight')].req
                            IN /\ req.method = query.method
                               /\ (query.method # "GET" /\ CallerBody(query) # <<>>)
                                    => req.hasData /\ req.data = CallerBody(query)
                               /\ (query.method # "GET" /\ CallerBody(query) = <<>>)
                                    => ~req.hasData
                    /\ (op'.name = "requestJson" /\ query.method = "GET")
                         => op'.outcome = "legacy" /\ op'.args.body = <<>>
     /\ (op'.name = "get" /\ op'.outcome = "sent" /\ op'.args.method # "GET")
          => inflight'[Len(inflight')].req.data = op'.args.body]_vars

\* C14 witness: a GET request without data is in flight for a call of get
\* that was given a body.
C14_Witness ==
  /\ op.name = "get"
  /\ op.outcome = "sent"
  /\ op.args.method = "GET"
  /\ op.args.body = Body1
  /\ ~inflight[Len(inflight)].req.hasData

\* the method is one of GET, POST, PUT, DELETE, PATCH
Supported(method) == method \in {"GET", "POST", "PUT", "DELETE", "PATCH"}

\* C15: requestJson throws the invalid-method error for every query whose
\* method is not one of GET, POST, PUT, DELETE, PATCH, whatever its API id,
\* and then nothing else happened: the registry, the cache, the last
\* observed duration and the requests in flight are as before. It throws
\* that error for no query with a supported method, and neither cachedGet
\* nor the legacy API is called, nor a request sent, with another method.
C15_InvalidMethodFirst ==
  [][/\ \A query \in MethodQueries :
          RequestJson(query)
            => IF Supported(query.method)
               THEN ~(op'.name = "requestJson" /\ op'.outcome = "invalid_method")
               ELSE /\ op'.name = "requestJson"
                    /\ op'.outcome = "invalid_method"
                    /\ op'.query = query
                    /\ apis' = apis
                    /\ cache' = cache
                    /\ lastCacheDuration' = lastCacheDuration
                    /\ inflight' = inflight
     /\ op'.name = "cachedGet" => Supported(op'.args.method)
     /\ (op'.name = "requestJson" /\ op'.outcome = "legacy")
          => Supported(op'.args.method)
     /\ \A i \in 1..Len(inflight') : Supported(inflight'[i].req.method)]_vars

\* C15 witness: a query with the method "get" on a registered API was
\* rejected while the cache held an unexpired entry for its request, stored
\* with another duration than the one of the query.
C15_Witness ==
  /\ op.name = "requestJson"
  /\ op.outcome = "invalid_method"
  /\ op.query.method = "get"
  /\ op.query.apiId = "a"
  /\ Unexpired(cache, CacheKeys[ApiA][Calls[op.query]], now)
  /\ lastCacheDuration # {op.query.cacheDurationSeconds}

\* the API id that a query resolves to: its own, or else the one of the
\* request type it names ("" when there is none)
TargetApi(query) ==
  IF query.apiId # "" THEN query.apiId
  ELSE CASE query.requestType = "rt1" -> "b"
         [] query.requestType \in {"AggregateData"} -> "DataService"
         [] OTHER -> ""

\* the step went through the registry entry with this id: cachedGet was
\* called with the id, and it threw the unknown-API error and sent nothing
\* when the registry has no such entry, and otherwise sent nothing or sent a
\* request to the URL of that entry
ThroughRegistry(id) ==
  /\ op'.name = "cachedGet"
  /\ op'.args.apiId = id
  /\ IF \A i \in 1..Len(apis) : apis[i].id # id
     THEN op'.outcome = "not_found" /\ inflight' = inflight
     ELSE /\ op'.outcome # "not_found"
          /\ op'.outcome # "sent" => inflight' = inflight
          /\ op'.outcome = "sent"
               => LET url == (CHOOSE i \in 1..Len(apis) : apis[i].id = id)
                  IN /\ Len(inflight') = Len(inflight) + 1
                     /\ SubSeq(inflight'[Len(inflight')].req.url, 1, Len(apis[url].url))
                          = apis[url].url

\* C16, as claimed: whenever requestJson resolves an API id, from the query
\* or from the request type it names, the request goes through the registry
\* entry with that id or fails with the unknown-API error.
C16_ResolvedApiThroughRegistry ==
  [][op'.name \in {"cachedGet", "requestJson"}
       => \A query \in QueriesOf[op'.args] \cap ResolveQueries :
            (RequestJson(query) /\ TargetApi(query) # "")
              => ThroughRegistry(TargetApi(query))]_vars

\* C16, amended: whenever requestJson resolves an API id and the registry
\* holds at least one API, the request goes through the registry entry with
\* that id or fails with the unknown-API error; when the registry is empty
\* or no API id is resolved, the request is handed to the legacy API of the
\* data source and the manager sends nothing.
C16_ResolvedApiUnlessRegistryEmpty ==
  [][op'.name \in {"cachedGet", "requestJson"}
       => \A query \in QueriesOf[op'.args] \cap ResolveQueries :
            RequestJson(query)
              => IF TargetApi(query) # "" /\ apis # <<>>
                 THEN ThroughRegistry(TargetApi(query))
                 ELSE /\ op'.name = "requestJson"
                      /\ op'.outcome = "legacy"
                      /\ op'.args.apiId = TargetApi(query)
                      /\ inflight' = inflight
                      /\ cache' = cache]_vars

\* C16 witness: a request was sent to the API of a request type: no query of
\* the scenarios names the API "b" itself.
C16_Witness ==
  /\ op.name = "cachedGet"
  /\ op.args.apiId = "b"
  /\ op.outcome = "sent"
  /\ SubSeq(inflight[Len(inflight)].req.url, 1, Len(UrlB)) = UrlB

(***************************************************************************)
(* Frames                                                                  *)
(***************************************************************************)
\* the values that the expressions of a request returned, for the fields
\* that have an expression
RawLengths(request) ==
  {Len(ArrayResult(request.fields[i].result)) :
     i \in {j \in 1..Len(request.fields) : request.fields[j].jsonPath # <<>>}}

\* all the columns of the frame have one length
EqualColumns(frame) ==
  \A i, j \in 1..Len(frame.fields) :
    Len(frame.fields[i].values) = Len(frame.fields[j].values)

HasColumn(frame, c) == \E i \in 1..Len(frame.fields) : frame.fields[i].name = c

\* the values of the first column of the frame named c
ColumnOf(frame, c) ==
  frame.fields[CHOOSE i \in 1..Len(frame.fields) :
                 /\ frame.fields[i].name = c
                 /\ \A j \in 1..(i - 1) : frame.fields[j].name # c].values

\* the rows of a column that start a group: no earlier row has their value
FirstRows(by) == {i \in 1..Len(by) : \A j \in 1..(i - 1) : by[j] # by[i]}

\* the k-th smallest of a set of rows
Nth(rows, k) == CHOOSE i \in rows : Cardinality({j \in rows : j <= i}) = k

\* the values of a column at the given rows, in the order of the rows
Pick(values, rows) == [k \in 1..Cardinality(rows) |-> values[Nth(rows, k)]]

\* C18: groupBy(frame, c) on a frame with a column c returns one frame for
\* each distinct value of c, in the order of the values' first occurrence
\* and named after the value; each frame has the columns of the input other
\* than c, in their order, each holding the values of the rows whose c is
\* the frame's value, in the order of the rows; so every row of the input is
\* in exactly one frame.
C18_GroupByPartitionsRows ==
  (op.name = "groupBy" /\ HasColumn(op.frame, op.fieldName)) =>
    LET by == ColumnOf(op.frame, op.fieldName)
        firsts == FirstRows(by)
        kept == SelectSeq(op.frame.fields, LAMBDA field : field.name # op.fieldName)
        frames == op.result
    IN /\ Len(frames) = Cardinality(firsts)
       /\ \A g \in 1..Len(frames) :
            LET rows == {i \in 1..Len(by) : by[i] = by[Nth(firsts, g)]}
            IN /\ frames[g].name = by[Nth(firsts, g)]
               /\ Len(frames[g].fields) = Len(kept)
               /\ \A k \in 1..Len(kept) :
                    /\ frames[g].fields[k].name = kept[k].name
                    /\ frames[g].fields[k].values = Pick(kept[k].values, rows)
       /\ \A i \in 1..Len(by) :
            Cardinality({g \in 1..Len(frames) : frames[g].name = by[i]}) = 1

\* the rows (us,1), (eu,2), (us,3) grouped by the region: a frame us with
\* the values 1 and 3 and a frame eu with the value 2
C18_Witness ==
  /\ op.name = "groupBy"
  /\ op.fieldName = <<"r">>
  /\ op.frame.fields = <<Column(<<"r">>, "string", <<"\"us\"", "\"eu\"", "\"us\"">>),
                         Column(<<"v">>, "number", <<"1", "2", "3">>)>>
  /\ op.result = <<toDataFrame("\"us\"", "A", <<Column(<<"v">>, "number", <<"1", "3">>)>>),
                   toDataFrame("\"eu\"", "A", <<Column(<<"v">>, "number", <<"2">>)>>)>>

\* C19: groupBy(frame, c) on a frame without a column named c returns the
\* list of one element, the input frame as it was given, and no error.
C19_NoColumnReturnsFrame ==
  (op.name = "groupBy" /\ ~HasColumn(op.frame, op.fieldName)) =>
    op.result = <<op.frame>>

C19_Witness ==
  /\ op.name = "groupBy"
  /\ op.fieldName = <<"z">>
  /\ Len(op.frame.fields) = 3
  /\ Len(op.frame.fields[1].values) = 3
  /\ op.result = <<op.frame>>

\* the fields of the request that have an expression
Extracted(request) == SelectSeq(request.fields, LAMBDA field : field.jsonPath # <<>>)

\* the type of the column of a field: the explicit type when there is one,
\* the detected type otherwise
ColumnType(field) ==
  IF field.type # "" THEN field.type ELSE detectFieldType(ArrayResult(field.result))

\* C20: every column returned by doRequest, of a JSONPath as of a JSONata
\* expression, has the field's explicit type when given and the detected
\* type otherwise, and holds the extracted values converted to that type.
C20_ColumnsAreTypedAndCoerced ==
  (op.name = "doRequest" /\ op.result.error = "none" /\ op.request.groupByField = <<>>) =>
    LET fields == Extracted(op.request)
        columns == op.result.frames[1].fields
    IN /\ Len(columns) = Len(fields)
       /\ \A k \in 1..Len(fields) :
            /\ columns[k].type = ColumnType(fields[k])
            /\ columns[k].values =
                 parseValues(ArrayResult(fields[k].result), ColumnType(fields[k]))

(***************************************************************************)
(* Macros                                                                  *)
(***************************************************************************)
\* the value of each macro for a range: the epoch seconds of the start and
\* of the end, and their ISO-8601 forms
MacroValues(r) ==
  <<(<<UnixEpochFrom \o <<"(", ")">>, ToDigits(r.from.s)>>),
    (<<UnixEpochTo \o <<"(", ")">>, ToDigits(r.to.s)>>),
    (<<IsoFrom \o <<"(", ")">>, toISOString(r.from)>>),
    (<<IsoTo \o <<"(", ")">>, toISOString(r.to)>>)>>

RECURSIVE Rewritten(_, _)
\* the text read once from the left: every macro replaced by its value,
\* every other character kept
Rewritten(text, values) ==
  IF text = <<>> THEN <<>>
  ELSE LET at == {k \in 1..Len(values) : MatchAt(text, values[k][1], 1)}
       IN IF at = {} THEN <<Head(text)>> \o Rewritten(Tail(text), values)
          ELSE LET k == CHOOSE k \in at : TRUE
               IN values[k][2]
                    \o Rewritten(SubSeq(text, Len(values[k][1]) + 1, Len(text)), values)

\* C21: with a range, replaceMacros returns the text with every
\* $__unixEpochFrom() and $__unixEpochTo() replaced by the epoch seconds of
\* the start and the end of the range and every $__isoFrom() and $__isoTo()
\* by their ISO-8601 forms, and all other text as it was; without a range it
\* returns the text unchanged.
C21_MacrosRewritten ==
  op.name = "replaceMacros" =>
    IF op.range = {} THEN op.result = op.str
    ELSE op.result = Rewritten(op.str, MacroValues(CHOOSE r \in op.range : TRUE))

\* C21 witness: the range 1700000000..1700003600 turned
\* "$__unixEpochFrom()-$__unixEpochTo()" into "1700000000-1700003600"
C21_Witness ==
  /\ op.name = "replaceMacros"
  /\ op.range = {[from |-> [s |-> 1700000000, ms |-> 0], to |-> [s |-> 1700003600, ms |-> 0]]}
  /\ op.str = UnixEpochFrom \o <<"(", ")", "-">> \o UnixEpochTo \o <<"(", ")">>
  /\ op.result = <<"1", "7", "0", "0", "0", "0", "0", "0", "0", "0", "-", "1", "7", "0", "0", "0", "0", "3", "6", "0", "0">>

\* the value bound to a variable
BoundTo(bindings, name) ==
  bindings[CHOOSE k \in 1..Len(bindings) : bindings[k][1] = name][2]

\* C30: for one range, the value bound to __unixEpochFrom, __unixEpochTo,
\* __isoFrom and __isoTo for a JSONata expression is the value that
\* replaceMacros puts in the place of $__unixEpochFrom(), $__unixEpochTo(),
\* $__isoFrom() and $__isoTo(): the epoch seconds of the start and the end of
\* the range and their ISO-8601 forms.
C30_BindingsAgreeWithMacros ==
  (op.name = "bindings" /\ op.range # {}) =>
    \A macro \in {UnixEpochFrom, UnixEpochTo, IsoFrom, IsoTo} :
      BoundTo(op.bindings, Tail(macro)) = replaceMacros(macro \o <<"(", ")">>, op.range)

\* the results of the tests with the given status, as testDatasource lists them
NamesOf(slots, status) ==
  LET of == SelectSeq(slots, LAMBDA r : r.status = status)
  IN JoinText([i \in 1..Len(of) |->
                 IF status = "success" THEN of[i].apiName
                 ELSE of[i].apiName \o " (" \o of[i].message \o ")"], ", ")

\* C22: with at least one API configured, testDatasource tests every
\* configured API and aggregates: when all succeed the result is a success
\* whose message lists all API names; when some succeed and some fail it is
\* a success whose message lists the succeeded names and the failed names
\* each with its reason; when none succeeds it is a failure. While tests are
\* awaited, a failed test leaves every other test awaited: there are as many
\* requests in flight as pending results.
C22_TestsAllAndAggregates ==
  /\ batch.kind = "test" =>
       /\ Len(batch.slots) = Len(regList)
       /\ Len(SelectSeq(batch.slots, LAMBDA r : r.status = "pending")) = Len(inflight)
  /\ batch.result # {} =>
       LET result == CHOOSE r \in batch.result : TRUE
           succeeded == {k \in 1..Len(batch.slots) : batch.slots[k].status = "success"}
           failed == {k \in 1..Len(batch.slots) : batch.slots[k].status = "error"}
       IN /\ Len(batch.slots) = Len(regList)
          /\ Len(regList) > 0
          /\ \A k \in 1..Len(regList) :
               /\ batch.slots[k].apiName = regList[k].name
               /\ k \in succeeded \cup failed
          /\ failed = {} =>
               /\ ~result.rejected /\ result.status = "success"
               /\ result.message = "All APIs connected successfully: "
                                     \o NamesOf(batch.slots, "success")
          /\ (failed # {} /\ succeeded # {}) =>
               /\ ~result.rejected /\ result.status = "success"
               /\ result.message = "Some APIs connected successfully: "
                                     \o NamesOf(batch.slots, "success")
                                     \o ". Failed: " \o NamesOf(batch.slots, "error")
          /\ succeeded = {} => result.rejected /\ result.status = "error"

\* C22 witness: of A, U and B, the test of U threw, the one of B was
\* rejected and the one of A succeeded after that
C22_Witness ==
  /\ regList = <<ApiA, ApiUp, ApiB>>
  /\ op.name = "respond"
  /\ op.ok
  /\ batch.result =
       {[rejected |-> FALSE, status |-> "success",
         message |-> "Some APIs connected successfully: A. Failed: "
                       \o "U (URL path contains unsafe characters), B (Cannot connect to API)"]}

\* the URL of the health check of api
BaselineUrl(api) ==
  api.url \o (IF api.queryParams = <<>> THEN <<>> ELSE <<"?">> \o api.queryParams)

\* C23: the health check of one configured API issues a GET on the API's
\* base URL with only the API's default query parameters and default
\* headers, and it classifies the API as succeeded for every 2xx response
\* status and as failed otherwise.
C23_HealthCheckClassifies2xx ==
  /\ \A i \in 1..Len(inflight) :
       inflight[i].kind = "test" =>
         LET api == getApi(apis, inflight[i].args.apiId).api
             req == inflight[i].req
         IN /\ req.method = "GET"
            /\ ~req.hasData
            /\ req.url = BaselineUrl(api)
            /\ req.headers = RecordHeaders(api.headers)
  /\ \A k \in 1..Len(batch.slots) :
       \A resp \in batch.slots[k].response :
         batch.slots[k].status = "success"
           <=> (resp.ok /\ resp.status \in 200..299)

\* the place of the colon that ends the scheme of url: the first colon, when
\* only letters stand before it; 0 when url has no scheme
SchemeColon(url) ==
  LET colons == {i \in 2..Len(url) : url[i] = ":" /\ \A j \in 1..(i - 1) : url[j] \in {"h", "a"}}
  IN IF colons = {} THEN 0 ELSE CHOOSE i \in colons : \A j \in colons : i <= j

\* the runs of slashes of url, as pairs of their first and last place
SlashRuns(url) ==
  {<<i, j>> \in (1..Len(url)) \X (1..Len(url)) :
     /\ i <= j
     /\ \A k \in i..j : url[k] = "/"
     /\ (i = 1 \/ url[i - 1] # "/")
     /\ (j = Len(url) \/ url[j + 1] # "/")}

RECURSIVE Collapsed(_)
\* url with every run of slashes collapsed to one slash
Collapsed(url) ==
  IF Len(url) < 2 THEN url
  ELSE IF url[1] = "/" /\ url[2] = "/" THEN Collapsed(Tail(url))
  ELSE <<Head(url)>> \o Collapsed(Tail(url))

\* C24: the URL of the issued request is base URL + path with every run of
\* consecutive slashes collapsed to a single slash, except the slashes that
\* directly follow the scheme's colon (two of them stay two), followed by
\* the merged query string appended with '?', or with '&' when the URL
\* already contains a '?'.
C24_UrlCollapsedAndQueryAppended ==
  op.name = "_request" =>
    LET joined == op.base \o op.path
        query == Join(EncodedPairs(op.params, TRUE), <<"&">>)
        tail == IF op.params = <<>> THEN <<>>
                ELSE (IF Includes(joined, <<"?">>) THEN <<"&">> ELSE <<"?">>) \o query
        url == SubSeq(op.fullUrl, 1, Len(op.fullUrl) - Len(tail))
    IN /\ Len(op.fullUrl) >= Len(tail)
       /\ SubSeq(op.fullUrl, Len(url) + 1, Len(op.fullUrl)) = tail
       /\ Collapsed(url) = Collapsed(joined)
       /\ \A run \in SlashRuns(url) :
            run[2] > run[1] => (run[1] > 1 /\ run[1] - 1 = SchemeColon(url))
       /\ \A run \in SlashRuns(joined) :
            (run[1] > 1 /\ run[1] - 1 = SchemeColon(joined) /\ run[2] > run[1]) =>
              \E kept \in SlashRuns(url) : kept[1] = run[1] /\ kept[2] > kept[1]

C26_NoCoalescing ==
  [][/\ (/\ op'.name = "cachedGet"
         /\ op'.d > 0
         /\ op'.key \notin DOMAIN cache
         /\ \E i \in 1..Len(inflight) :
              /\ inflight[i].store
              /\ inflight[i].key = op'.key
              /\ inflight[i].d = op'.d
              /\ inflight[i].args = op'.args) =>
          /\ op'.outcome = "sent"
          /\ op'.dispatches = 1
          /\ Len(inflight') = Len(inflight) + 1
          /\ \E i \in 1..Len(inflight) : inflight'[Len(inflight')] = inflight[i]
     /\ (op'.name = "respond" /\ op'.ok /\ op'.call.store) =>
          /\ \E i \in 1..Len(inflight) :
               /\ inflight[i] = op'.call
               /\ inflight' = Remove(inflight, i)
          /\ op'.call.key \in DOMAIN cache'
          /\ cache'[op'.call.key] =
               [value |-> op'.value, expire |-> Millis(now) + op'.call.d * 1000]
    ]_vars

\* C26 witness: of two calls awaited at once for one key and one duration,
\* one completed with the answer {} at second 1 and its answer is under the
\* key until second 1 + d; the other is still awaited
C26_Witness ==
  /\ op.name = "respond"
  /\ op.ok
  /\ op.call.store
  /\ op.value = "{}"
  /\ now = 1
  /\ Len(inflight) = 1
  /\ inflight[1] = op.call
  /\ cache[op.call.key] = [value |-> "{}", expire |-> 1000 + op.call.d * 1000]

\* the entry that cachedGet(c, d) finds for its key is unexpired and the
\* duration rule keeps it
Kept(c, d) ==
  /\ getApi(apis, c.apiId).found
  /\ lastCacheDuration = {d}
  /\ Live(cache, CacheKeys[getApi(apis, c.apiId).api][c], now)

\* C27: updateApis changes only the registry: the cache entries and the
\* last-observed duration are unchanged by it, so an unexpired entry whose
\* key is computed again after the replace (same base URL, path and
\* parameters) is still served without a dispatch, even when the replace
\* changed the API's default headers or default query parameters.
C27_UpdateApisKeepsEntriesServed ==
  [][/\ op'.name = "updateApis" =>
          /\ cache' = cache
          /\ lastCacheDuration' = lastCacheDuration
          /\ inflight' = inflight
     /\ (op'.name = "cachedGet" /\ op'.d > 0 /\ Kept(op'.args, op'.d)) =>
          /\ op'.outcome = "hit"
          /\ op'.dispatches = 0
          /\ op'.value = cache[op'.key].value
          /\ inflight' = inflight
    ]_vars

RefIds(frames) == [f \in 1..Len(frames) |-> frames[f].refId]

\* the targets of the slots, in their order
TargetsOf(slots) == [k \in 1..Len(slots) |-> slots[k].target]

\* C29: query executes exactly the targets that are not hidden, each once,
\* and returns their frames concatenated in the order of the targets (and,
\* within a target, in the order in which its frames were produced),
\* whatever the order in which the targets' requests complete.
C29_FramesInTargetOrder ==
  [][/\ op'.name = "query" =>
          /\ batch'.slots = <<>>
          /\ batch'.todo = Shown(op'.targets)
          /\ \A k \in 1..Len(batch'.todo) : ~batch'.todo[k].hide
          /\ Len(batch'.todo) = Cardinality({k \in 1..Len(op'.targets) : ~op'.targets[k].hide})
          /\ inflight' = inflight
     /\ (op'.name # "query" /\ batch' # batch) =>
          /\ TargetsOf(batch'.slots) \o batch'.todo = TargetsOf(batch.slots) \o batch.todo
          /\ Len(batch'.slots) - Len(batch.slots) \in {0, 1}
          /\ Len(inflight') - Len(inflight) <= Len(batch'.slots) - Len(batch.slots)
          /\ Len(inflight') =
               Cardinality({k \in 1..Len(batch'.slots) : batch'.slots[k].status = "pending"})
          /\ \A k \in 1..Len(batch.slots) :
               batch.slots[k].status # "pending" => batch'.slots[k] = batch.slots[k]
     /\ \A result \in batch'.result :
          ~result.rejected =>
            /\ batch'.todo = <<>>
            /\ \A k \in 1..Len(batch'.slots) :
                 /\ batch'.slots[k].status = "done"
                 /\ \A f \in 1..Len(batch'.slots[k].frames) :
                      batch'.slots[k].frames[f].refId = batch'.slots[k].target.refId
            /\ Len(result.data) = Len(FlatFrames(batch'.slots))
            /\ \A k \in 1..Len(batch'.slots) :
                 LET before == Len(FlatFrames(SubSeq(batch'.slots, 1, k - 1)))
                 IN \A f \in 1..Len(batch'.slots[k].frames) :
                      result.data[before + f] = batch'.slots[k].frames[f]
    ]_vars

\* C29 witness: of the targets A, H (hidden) and B, the request of B
\* completed first and the one of A last; query returned the two frames of A
\* and then the frame of B
C29_Witness ==
  /\ op.name = "respond"
  /\ op.call.args.method = "GET"
  /\ TargetsOf(batch.slots) =
       <<Target("A", FALSE, "GET", <<RegionField, NumberField>>, <<"r">>),
         Target("B", FALSE, "POST", <<NumberField>>, <<>>)>>
  /\ \E result \in batch.result :
       /\ ~result.rejected
       /\ RefIds(result.data) = <<"A", "A", "B">>
====
